---- MODULE Spec2Model ----
(***************************************************************************)
(* A model of the EMR spreadsheet batch worker (apps/batch): receipt       *)
(* detection, integrity and duplicate checks, parsing, row validation,     *)
(* Patient / Appointment upsert with conflict detection, the Import        *)
(* ledger and the archive / error routing of the source files.             *)
(*                                                                         *)
(* Strings of the source that are Korean are written with ASCII stand-ins  *)
(* (the header names of HEADER_MAP, the error messages).                   *)
(***************************************************************************)
EXTENDS Integers, Sequences, FiniteSets, TLC

VARIABLES
    vRows,      \* validate_rows: the argument `rows`
    vOut,       \* validate_rows: the returned (valid, errors), <<>> before the call
    vPc,        \* "call" before validate_rows ran, "done" after, "off" when unused
    pKind,      \* the parser called: "INPATIENT" or "OUTPATIENT"
    pSheet,     \* the sheet it is called on
    pOut,       \* its result, <<>> before the call
    pPc,        \* "call", "done", "off"
    files,      \* the files delivered: kind, sheet, folder, receipt marker
    db,         \* the database as the worker's connection sees it
    dbc,        \* the committed database
    txn,        \* the connection's transaction: "ok" or "aborted"
    pc,         \* the worker's position
    queue,      \* the files of the running batch still to process
    fr,         \* the locals of process_*_file
    cycles,     \* batch runs started
    faults,     \* database statements that have failed
    cArgs,      \* a function called on its own: its arguments
    cRet,       \* its outcome, <<>> before the call
    cPc         \* "call", "done", "off"

valVars == <<vRows, vOut, vPc>>
parseVars == <<pKind, pSheet, pOut, pPc>>
pipeVars == <<files, db, dbc, txn, pc, queue, fr, cycles, faults>>
callVars == <<cArgs, cRet, cPc>>
vars == <<valVars, parseVars, pipeVars, callVars>>

ValidateOff == vRows = <<>> /\ vOut = <<>> /\ vPc = "off"
ParseOff == pKind = "" /\ pSheet = <<>> /\ pOut = <<>> /\ pPc = "off"
CallOff == cArgs = <<>> /\ cRet = <<>> /\ cPc = "off"
PipeOff ==
    /\ files = <<>> /\ db = <<>> /\ dbc = <<>> /\ txn = "ok" /\ pc = "off"
    /\ queue = <<>> /\ fr = <<>> /\ cycles = 0 /\ faults = 0

(***************************************************************************)
(* Bounds of the model.                                                    *)
(***************************************************************************)
MaxValRows == 3
MaxParseRows == 2
MaxRows == 2
MaxCycles == 4
MaxFaults == 1

(***************************************************************************)
(* Dates.  A date is a day number; datetime.now() is Now.  The batch runs  *)
(* at 10:00, 13:10 and 17:00, so now is never exactly midnight, while      *)
(* every parsed cell date is a midnight.                                   *)
(***************************************************************************)
Now == [day |-> 20000]

\* (datetime.now() - dob).days for a midnight dob
DaysSince(d) == Now.day - d

\* (admit_date - datetime.now()).days for a midnight admit_date: the
\* timedelta is negative by the time of day, and .days floors it
DaysAhead(d) == d - Now.day - 1

SeqsUpTo(S, n) == UNION {[1..k -> S] : k \in 0..n}

(***************************************************************************)
(* validators/data_validator.py                                            *)
(*                                                                         *)
(* A parsed inpatient row (parse_row's result) is a record                 *)
(*   n       _rowNumber                                                    *)
(*   errs    _errors, the parser's messages                                *)
(*   id      emrPatientId ("" when the key is absent)                      *)
(*   name, sex, phone ("None" when the key is absent)                      *)
(*   dob, admit, planned   <<>> when absent, <<day>> when a datetime       *)
(***************************************************************************)

\* the business rules of one row, in the order the code appends them
DobErrors(row) ==
    IF row.dob # <<>>
       /\ (DaysSince(row.dob[1]) < 0 \/ 4 * DaysSince(row.dob[1]) > 4 * 150 * 365 + 150)
    THEN <<"dobOutOfRange">> ELSE <<>>

AdmitErrors(row) ==
    IF row.admit # <<>> /\ DaysAhead(row.admit[1]) > 30
    THEN <<"admitTooFarAhead">> ELSE <<>>

PlannedErrorsNever(row) == <<>>

PlannedErrors(row) ==
    IF row.planned # <<>> /\ row.admit # <<>> /\ row.planned[1] < row.admit[1]
    THEN <<"dischargeBeforeAdmit">> ELSE <<>>

SexErrors(row) ==
    IF row.sex # "None" /\ row.sex # "" /\ row.sex \notin {"M", "F"}
    THEN <<"badSex">> ELSE <<>>

BusinessErrors(row) ==
    DobErrors(row) \o AdmitErrors(row) \o PlannedErrors(row) \o SexErrors(row)

ErrorRow(row, errs) == [rowNumber |-> row.n, errors |-> errs, raw |-> row]

\* seen_ids.add(emr_id), which runs before the business rules are checked
SeenAddMutant(seen, row) == seen

SeenAdd(seen, row) == seen \cup {row.id}

\* one iteration of the loop: acc is [valid, errors, seen]
ValidateRow(acc, row) ==
    IF row.errs # <<>>
    THEN [acc EXCEPT !.errors = Append(@, ErrorRow(row, row.errs))]
    ELSE IF row.id \in acc.seen
    THEN [acc EXCEPT !.errors = Append(@, ErrorRow(row, <<"duplicateId">>))]
    ELSE IF BusinessErrors(row) # <<>>
    THEN [acc EXCEPT !.seen = SeenAdd(@, row),
                     !.errors = Append(@, ErrorRow(row, BusinessErrors(row)))]
    ELSE [acc EXCEPT !.seen = SeenAdd(@, row),
                     !.valid = Append(@, row)]

RECURSIVE ValidateLoop(_, _, _)
ValidateLoop(rows, i, acc) ==
    IF i > Len(rows) THEN acc
    ELSE ValidateLoop(rows, i + 1, ValidateRow(acc, rows[i]))

validate_rows(rows) ==
    LET r == ValidateLoop(rows, 1, [valid |-> <<>>, errors |-> <<>>, seen |-> {}])
    IN  [valid |-> r.valid, errors |-> r.errors]

(***************************************************************************)
(* Spreadsheets.  A sheet is a record                                      *)
(*   opens   openpyxl.load_workbook succeeds on the file                   *)
(*   top     the leading rows (titles, the header), each the sequence of   *)
(*           its cells' texts, left to right; the header, when there is    *)
(*           one, is the last of them                                      *)
(*   data    the rows after them, each a record of cell values by internal *)
(*           field name ("" and <<>> are empty cells; a cell of a column   *)
(*           the sheet does not have is never read)                        *)
(***************************************************************************)
MaxScan == 10

\* the fields a row of header cells maps to, in column order, without repeats
RECURSIVE MappedFields(_, _, _, _)
MappedFields(cells, map, i, acc) ==
    IF i > Len(cells) THEN acc
    ELSE IF cells[i] \in DOMAIN map
            /\ \A k \in 1..Len(acc) : acc[k] # map[cells[i]]
    THEN MappedFields(cells, map, i + 1, Append(acc, map[cells[i]]))
    ELSE MappedFields(cells, map, i + 1, acc)

FieldSet(fs) == {fs[k] : k \in 1..Len(fs)}

\* the first of the first MaxScan rows with at least 3 mapped fields:
\* <<row index, fields>>, or <<>> where the code raises ValueError
RECURSIVE DetectFrom(_, _, _)
DetectFrom(top, map, i) ==
    IF i > Len(top) \/ i > MaxScan THEN <<>>
    ELSE LET fs == MappedFields(top[i], map, 1, <<>>)
         IN  IF Len(fs) >= 3 THEN <<i, fs>> ELSE DetectFrom(top, map, i + 1)

DateFields == {"dob", "admitDate", "plannedDischargeDate", "appointmentDate",
               "startTime", "endTime"}

\* the value read for `field`: None for a column the header does not map
Cell(raw, field, fields) ==
    IF field \in fields THEN raw[field]
    ELSE IF field \in DateFields THEN <<>> ELSE ""

IsEmptyCell(field, val) ==
    IF field \in DateFields THEN val = <<>> ELSE val = ""

(***************************************************************************)
(* parsers/inpatient_parser.py                                             *)
(***************************************************************************)
InHEADER_MAP ==
    [h \in {"patientNo", "patientID", "EMR_ID"} |-> "emrPatientId"] @@
    [h \in {"patientName", "name"} |-> "name"] @@
    [h \in {"birthDate"} |-> "dob"] @@
    [h \in {"sex"} |-> "sex"] @@
    [h \in {"contact", "phoneNo"} |-> "phone"] @@
    [h \in {"admitDay", "admitDate"} |-> "admitDate"] @@
    [h \in {"plannedDischarge"} |-> "plannedDischargeDate"] @@
    [h \in {"attending", "attendingDoctor"} |-> "attendingDoctor"] @@
    [h \in {"ward"} |-> "wardName"] @@
    [h \in {"room"} |-> "roomName"] @@
    [h \in {"bed", "bedAlt"} |-> "bedLabel"] @@
    [h \in {"status"} |-> "status"] @@
    [h \in {"remarks"} |-> "notes"]

InREQUIRED_FIELDS == {"emrPatientId", "name", "dob", "sex", "admitDate"}

detect_header_row(top) == DetectFrom(top, InHEADER_MAP, 1)

NormalizeSex(s) ==
    IF s \in {"nam", "M", "male", "namja"} THEN "M"
    ELSE IF s \in {"yeo", "F", "female", "yeoja"} THEN "F"
    ELSE s

\* str(phone).strip().replace("-", "") on the phone texts of the model
StripHyphens(p) ==
    IF p = "010-1234" THEN "0101234"
    ELSE IF p = "-" THEN ""
    ELSE p

\* parse_row: v is the row's cell values by field, n its sheet row number
parse_row(v, n) ==
    [n      |-> n,
     errs   |-> (IF v.emrPatientId = "" THEN <<"idEmpty">> ELSE <<>>)
                \o (IF v.name = "" THEN <<"nameEmpty">> ELSE <<>>)
                \o (IF v.dob = <<>> THEN <<"dobInvalid">> ELSE <<>>)
                \o (IF v.sex = "" THEN <<"sexEmpty">> ELSE <<>>)
                \o (IF v.admitDate = <<>> THEN <<"admitInvalid">> ELSE <<>>),
     id     |-> v.emrPatientId,
     name   |-> IF v.name = "" THEN "None" ELSE v.name,
     sex    |-> IF v.sex = "" THEN "None" ELSE NormalizeSex(v.sex),
     phone  |-> IF v.phone = "" THEN "None" ELSE StripHyphens(v.phone),
     dob    |-> v.dob,
     admit  |-> v.admitDate,
     planned |-> v.plannedDischargeDate]

InFields == {"emrPatientId", "name", "dob", "sex", "phone", "admitDate",
             "plannedDischargeDate"}

RECURSIVE InRowsFrom(_, _, _, _, _)
InRowsFrom(data, fs, first, k, acc) ==
    IF k > Len(data) THEN acc
    ELSE LET v == [f \in InFields |-> Cell(data[k], f, FieldSet(fs))]
         IN  \* a row whose first mapped column is empty is skipped
             IF IsEmptyCell(fs[1], v[fs[1]])
             THEN InRowsFrom(data, fs, first, k + 1, acc)
             ELSE InRowsFrom(data, fs, first, k + 1,
                             Append(acc, parse_row(v, first + k)))

\* parse_inpatient_file: [raise |-> the ValueError ("" when none), rows]
parse_inpatient_file(sheet) ==
    LET h == detect_header_row(sheet.top)
    IN  IF h = <<>> THEN [raise |-> "noHeaderRow", rows |-> <<>>]
        ELSE IF InREQUIRED_FIELDS \ FieldSet(h[2]) # {}
        THEN [raise |-> "missingColumns", rows |-> <<>>]
        ELSE [raise |-> "", rows |-> InRowsFrom(sheet.data, h[2], h[1], 1, <<>>)]

(***************************************************************************)
(* parsers/outpatient_parser.py                                            *)
(*                                                                         *)
(* A time of day is <<hour, minute>> ("HH:MM"); a time cell is <<>> when   *)
(* empty or unparseable and <<h, m>> otherwise.                            *)
(***************************************************************************)
OutHEADER_MAP ==
    [h \in {"patientNo", "patientID", "EMR_ID"} |-> "emrPatientId"] @@
    [h \in {"patientName", "name"} |-> "patientName"] @@
    [h \in {"apptDay", "apptDate", "visitDay"} |-> "appointmentDate"] @@
    [h \in {"startTime", "apptTime", "start"} |-> "startTime"] @@
    [h \in {"endTime", "end"} |-> "endTime"] @@
    [h \in {"attending", "attendingDoctor", "doctor"} |-> "doctorName"] @@
    [h \in {"doctorID", "EMRdoctorID"} |-> "emrDoctorId"] @@
    [h \in {"clinicRoom", "clinicRoomName"} |-> "clinicRoomName"] @@
    [h \in {"apptStatus", "status"} |-> "status"] @@
    [h \in {"remarks", "memo"} |-> "notes"] @@
    [h \in {"EMRapptID", "apptNo"} |-> "emrAppointmentId"]

OutREQUIRED_FIELDS == {"emrPatientId", "patientName", "appointmentDate", "startTime"}

OutFields == {"emrPatientId", "patientName", "appointmentDate", "startTime",
              "endTime", "doctorName", "emrDoctorId", "clinicRoomName",
              "status", "notes", "emrAppointmentId"}

\* _detect_header_row
detect_header_row_out(top) == DetectFrom(top, OutHEADER_MAP, 1)

\* str(value).strip().upper() looked up in status_map, BOOKED otherwise
\* ("yeyak" .. "byeongyeong" stand for the six Korean keys)
normalize_status(s) ==
    IF s \in {"jeopsu", "CHECKED_IN", "checked_in"} THEN "CHECKED_IN"
    ELSE IF s \in {"wanryo", "COMPLETED", "completed"} THEN "COMPLETED"
    ELSE IF s \in {"chwiso", "CANCELLED", "cancelled"} THEN "CANCELLED"
    ELSE IF s \in {"mibangmun", "NO_SHOW", "no_show"} THEN "NO_SHOW"
    ELSE IF s \in {"byeongyeong", "CHANGED", "changed"} THEN "CHANGED"
    ELSE "BOOKED"

\* the end time synthesized for a row without one: start + 30 minutes
SynthEnd(start) ==
    IF start[2] + 30 >= 60 THEN <<start[1] + 1, start[2] + 30 - 60>>
    ELSE <<start[1], start[2] + 30>>

\* one data row of parse_outpatient_file; error is "" for a row without _error
parse_out_row(v, n) ==
    LET base == [row |-> n, error |-> "",
                 emrPatientId |-> v.emrPatientId, patientName |-> v.patientName,
                 appointmentDate |-> v.appointmentDate,
                 startTime |-> v.startTime, endTime |-> v.endTime,
                 doctorName |-> v.doctorName, emrDoctorId |-> v.emrDoctorId,
                 clinicRoomName |-> v.clinicRoomName, status |-> v.status,
                 notes |-> v.notes, emrAppointmentId |-> v.emrAppointmentId]
    IN  IF v.emrPatientId = "" THEN [base EXCEPT !.error = "patientNoMissing"]
        ELSE IF v.appointmentDate = <<>> THEN [base EXCEPT !.error = "apptDateFormat"]
        ELSE IF v.startTime = <<>> THEN [base EXCEPT !.error = "startTimeFormat"]
        ELSE [base EXCEPT
                !.endTime = IF v.endTime = <<>> THEN SynthEnd(v.startTime) ELSE v.endTime,
                !.status = normalize_status(v.status)]

RECURSIVE OutRowsFrom(_, _, _, _, _)
OutRowsFrom(data, fs, first, k, acc) ==
    IF k > Len(data) THEN acc
    ELSE LET v == [f \in OutFields |-> Cell(data[k], f, FieldSet(fs))]
         IN  \* a row all of whose cells are empty is skipped
             IF \A f \in FieldSet(fs) : IsEmptyCell(f, v[f])
             THEN OutRowsFrom(data, fs, first, k + 1, acc)
             ELSE OutRowsFrom(data, fs, first, k + 1,
                              Append(acc, parse_out_row(v, first + k)))

\* parse_outpatient_file: the ValueError of _detect_header_row is caught
\* and [] returned; OutREQUIRED_FIELDS is never consulted
parse_outpatient_file(sheet) ==
    LET h == detect_header_row_out(sheet.top)
    IN  IF h = <<>> THEN [raise |-> "", rows |-> <<>>]
        ELSE [raise |-> "", rows |-> OutRowsFrom(sheet.data, h[2], h[1], 1, <<>>)]

(***************************************************************************)
(* The rows validate_rows is applied to: every sequence of at most         *)
(* MaxValRows rows over these shapes, numbered in file order.              *)
(***************************************************************************)
CleanRow(id) ==
    [errs |-> <<>>, id |-> id, name |-> "Kim", sex |-> "M", phone |-> "None",
     dob |-> <<Now.day - 10000>>, admit |-> <<Now.day>>, planned |-> <<>>]

ValShapes ==
    UNION {
      { CleanRow(id),
        [CleanRow(id) EXCEPT !.errs = <<"nameEmpty">>, !.name = "None"],
        [CleanRow(id) EXCEPT !.sex = "X"],
        [CleanRow(id) EXCEPT !.dob = <<Now.day - 60000>>],
        [CleanRow(id) EXCEPT !.admit = <<Now.day + 40>>],
        [CleanRow(id) EXCEPT !.planned = <<Now.day - 1>>] }
      : id \in {"P1", "P2"} }

Numbered(shapes) ==
    [i \in 1..Len(shapes) |->
        [n |-> i + 1, errs |-> shapes[i].errs, id |-> shapes[i].id,
         name |-> shapes[i].name, sex |-> shapes[i].sex, phone |-> shapes[i].phone,
         dob |-> shapes[i].dob, admit |-> shapes[i].admit,
         planned |-> shapes[i].planned]]

InitValidate ==
    /\ vRows \in {Numbered(s) : s \in SeqsUpTo(ValShapes, MaxValRows)}
    /\ vOut = <<>>
    /\ vPc = "call"
    /\ ParseOff /\ PipeOff /\ CallOff

CallValidate ==
    /\ vPc = "call"
    /\ vOut' = <<validate_rows(vRows)>>
    /\ vPc' = "done"
    /\ UNCHANGED <<vRows, parseVars, pipeVars, callVars>>

NextValidate == CallValidate

SpecValidate == InitValidate /\ [][NextValidate]_vars

(***************************************************************************)
(* Intra-file duplicate detection (validate_rows).                         *)
(***************************************************************************)
IsValidRow(out, row) == \E k \in 1..Len(out.valid) : out.valid[k] = row

ErrorsFor(out, row) ==
    {out.errors[k].errors : k \in {m \in 1..Len(out.errors) : out.errors[m].raw = row}}

SharedIdPairs ==
    {p \in (1..Len(vRows)) \X (1..Len(vRows)) :
        p[1] < p[2] /\ vRows[p[1]].id = vRows[p[2]].id}

NoParserError(i) == vRows[i].errs = <<>>

\* the first row of the file, in file order, that carries this id without
\* a parser error
FirstClean(i) ==
    /\ NoParserError(i)
    /\ \A k \in 1..(i - 1) : ~(NoParserError(k) /\ vRows[k].id = vRows[i].id)

\* C7 as stated: of ANY two rows sharing an emrPatientId the earlier one is
\* eligible for upsert and the later one is an error with the duplicate-id
\* reason.
C7_AnyTwoRows_EarlierValid_LaterDuplicate ==
    vPc = "done" =>
        \A p \in SharedIdPairs :
            /\ IsValidRow(vOut[1], vRows[p[1]])
            /\ ErrorsFor(vOut[1], vRows[p[2]]) = {<<"duplicateId">>}

\* C7 amended: of two rows WITHOUT PARSER ERRORS sharing an emrPatientId the
\* later one is an error with the duplicate-id reason (and only that reason),
\* and the only row of that id that can be eligible for upsert is the first
\* parser-clean one, which is valid exactly when it passes the business
\* rules; a row with a parser error never takes part in the duplicate check.
C7_CleanRows_FirstWins_LaterDuplicate ==
    vPc = "done" =>
        /\ \A p \in SharedIdPairs :
              (NoParserError(p[1]) /\ NoParserError(p[2])) =>
                  /\ ErrorsFor(vOut[1], vRows[p[2]]) = {<<"duplicateId">>}
                  /\ ~IsValidRow(vOut[1], vRows[p[2]])
        /\ \A i \in 1..Len(vRows) :
              IsValidRow(vOut[1], vRows[i]) <=>
                  (FirstClean(i) /\ BusinessErrors(vRows[i]) = <<>>)
        /\ \A i \in 1..Len(vRows) :
              ~NoParserError(i) => ErrorsFor(vOut[1], vRows[i]) = {vRows[i].errs}

\* two clean rows share an id: the first went to valid, the second to errors
C7_Witness ==
    /\ vPc = "done"
    /\ \E p \in SharedIdPairs :
          /\ NoParserError(p[1]) /\ NoParserError(p[2])
          /\ IsValidRow(vOut[1], vRows[p[1]])
          /\ ErrorsFor(vOut[1], vRows[p[2]]) = {<<"duplicateId">>}

(***************************************************************************)
(* The parsers applied to sheets: the header is any selection of columns   *)
(* of a full header, with or without a title row above it, over at most    *)
(* MaxParseRows data rows.                                                 *)
(***************************************************************************)
RECURSIVE Pick(_, _, _, _)
Pick(base, S, i, acc) ==
    IF i > Len(base) THEN acc
    ELSE Pick(base, S, i + 1, IF i \in S THEN Append(acc, base[i]) ELSE acc)

Selections(base) == {Pick(base, S, 1, <<>>) : S \in SUBSET (1..Len(base))}

Tops(base) == UNION {{<<h>>, <<<<"title">>, h>>} : h \in Selections(base)}

InFullHeader == <<"patientNo", "patientName", "birthDate", "sex", "admitDay", "contact">>

OutFullHeader == <<"patientNo", "patientName", "apptDay", "startTime", "endTime", "apptNo">>

InRaw(id, name, dob, sex, phone) ==
    [emrPatientId |-> id, name |-> name, dob |-> dob, sex |-> sex, phone |-> phone,
     admitDate |-> <<Now.day>>, plannedDischargeDate |-> <<>>]

OutRaw(id, name, start, end, doctor, apptId, status) ==
    [emrPatientId |-> id, patientName |-> name, appointmentDate |-> <<Now.day + 1>>,
     startTime |-> start, endTime |-> end, doctorName |-> doctor, emrDoctorId |-> "",
     clinicRoomName |-> "", status |-> status, notes |-> "",
     emrAppointmentId |-> apptId]

InParsePool ==
    { InRaw("P1", "Kim", <<Now.day - 10000>>, "nam", ""),
      InRaw("P2", "", <<Now.day - 10000>>, "F", "010-1234") }

OutParsePool ==
    { OutRaw("P1", "Kim", <<9, 0>>, <<>>, "DrA", "A1", ""),
      OutRaw("P2", "Lee", <<>>, <<>>, "DrA", "", "chwiso") }

ParseSheets(kind) ==
    \* validate_xlsx lets a sheet of fewer than 2 rows never reach the parser
    {sh \in [opens : {TRUE},
             top   : Tops(IF kind = "INPATIENT" THEN InFullHeader ELSE OutFullHeader),
             data  : SeqsUpTo(IF kind = "INPATIENT" THEN InParsePool ELSE OutParsePool,
                              MaxParseRows)] :
        Len(sh.top) + Len(sh.data) >= 2}

InitParse ==
    /\ pKind \in {"INPATIENT", "OUTPATIENT"}
    /\ pSheet \in ParseSheets(pKind)
    /\ pOut = <<>>
    /\ pPc = "call"
    /\ ValidateOff /\ PipeOff /\ CallOff

CallParseInpatient ==
    /\ pPc = "call" /\ pKind = "INPATIENT"
    /\ pOut' = <<parse_inpatient_file(pSheet)>>
    /\ pPc' = "done"
    /\ UNCHANGED <<pKind, pSheet, valVars, pipeVars, callVars>>

CallParseOutpatient ==
    /\ pPc = "call" /\ pKind = "OUTPATIENT"
    /\ pOut' = <<parse_outpatient_file(pSheet)>>
    /\ pPc' = "done"
    /\ UNCHANGED <<pKind, pSheet, valVars, pipeVars, callVars>>

NextParse == CallParseInpatient \/ CallParseOutpatient

SpecParse == InitParse /\ [][NextParse]_vars

(***************************************************************************)
(* The required-field check of the two parsers.                            *)
(***************************************************************************)
DetectedHeader ==
    IF pKind = "INPATIENT" THEN detect_header_row(pSheet.top)
    ELSE detect_header_row_out(pSheet.top)

RequiredOf(kind) ==
    IF kind = "INPATIENT" THEN InREQUIRED_FIELDS ELSE OutREQUIRED_FIELDS

\* C10: in both parsers, a detected header whose columns are not a superset
\* of the document type's required fields makes the parse fail outright,
\* with no row records.
C10_MissingRequiredColumn_FailsOutright ==
    (pPc = "done" /\ DetectedHeader # <<>>
        /\ RequiredOf(pKind) \ FieldSet(DetectedHeader[2]) # {})
    => (pOut[1].raise # "" /\ pOut[1].rows = <<>>)

(***************************************************************************)
(* The filesystem and the receipt / integrity / duplicate checks           *)
(* (validators/file_validator.py, worker.py).                              *)
(*                                                                         *)
(* files[f] is a record                                                    *)
(*   kind    the watched folder the file was delivered to                  *)
(*   sheet   its content                                                   *)
(*   dir     "watched", "archive" or "error"                               *)
(*   marker  where its <file>.done is: "watched", "error", "none"          *)
(* File ids are in filename order within a folder.                         *)
(***************************************************************************)
RECEIPT_MODE == "done_signal"

\* SHA-256 of the content: equal for equal content, distinct otherwise
compute_sha256(sheet) == <<"sha256", sheet>>

IsFileReadyAlways(file) == TRUE

\* is_file_ready in receipt mode `mode` on a path where
\*   at.file   is <<>> when no file is there, <<size>> otherwise,
\*   at.later  is the same at the function's second look at the path (the
\*             second getsize of stable_size, the getsize after exists),
\*   at.marker tells whether <path>.done exists.
\* The outcome is "True", "False" or "OSError" for an exception that leaves
\* the function.
is_file_ready_at(mode, at) ==
    IF mode = "done_signal" THEN (IF at.marker THEN "True" ELSE "False")
    ELSE IF mode = "stable_size"
    THEN IF at.file = <<>> \/ at.later = <<>> THEN "False"
         ELSE IF at.file[1] = at.later[1] /\ at.file[1] > 0 THEN "True" ELSE "False"
    ELSE IF at.file = <<>> THEN "False"
         ELSE IF at.later = <<>> THEN "OSError"
         ELSE IF at.later[1] > 0 THEN "True" ELSE "False"

\* what is at the path of a delivered file, which nobody writes to any more
PathOf(file) ==
    LET here == IF file.dir = "watched"
                THEN <<Len(file.sheet.top) + Len(file.sheet.data)>> ELSE <<>>
    IN  [file |-> here, later |-> here, marker |-> file.marker = "watched"]

is_file_ready(file) == is_file_ready_at(RECEIPT_MODE, PathOf(file)) = "True"

validate_xlsx(file) ==
    /\ file.dir = "watched"
    /\ file.sheet.opens
    /\ Len(file.sheet.top) + Len(file.sheet.data) >= 2

MoveToErrorLeavesMarker(file) == [file EXCEPT !.dir = "error"]

move_to_error(file) ==
    [file EXCEPT !.dir = "error",
                 !.marker = IF @ = "watched" THEN "error" ELSE @]

move_to_archive(file) ==
    [file EXCEPT !.dir = "archive",
                 !.marker = IF @ = "watched" THEN "none" ELSE @]

(***************************************************************************)
(* The database.  A state of it is a record of tables, each a sequence of  *)
(* rows in insertion order (a row's id is its index).  db is what the      *)
(* worker's connection sees, its own uncommitted writes included; dbc is   *)
(* what is committed.  conn.commit() makes dbc equal db; closing the       *)
(* connection without a commit, or a commit of an aborted transaction,     *)
(* makes db equal dbc.                                                     *)
(***************************************************************************)
EmptyDb ==
    [imports |-> <<>>, importErrors |-> <<>>, patients |-> <<>>,
     conflicts |-> <<>>, doctors |-> <<>>, appts |-> <<>>]

ZeroStats ==
    [note |-> "null", created |-> 0, updated |-> 0, conflicts |-> 0, skipped |-> 0,
     totalRows |-> 0, errorRows |-> 0]

BlockingStatusesNoSuccess == {"PROCESSING"}

BlockingStatusesNoProcessing == {"SUCCESS"}

\* the statuses that make check_duplicate report a duplicate
BlockingStatuses == {"SUCCESS", "PROCESSING"}

check_duplicate(hash, d) ==
    \E i \in 1..Len(d.imports) :
        d.imports[i].fileHash = hash /\ d.imports[i].status \in BlockingStatuses

\* create_import_record's INSERT
InsertImport(d, f, hash, kind) ==
    [d EXCEPT !.imports = Append(@, [filePath |-> f, fileHash |-> hash,
                                     fileType |-> kind, status |-> "PROCESSING",
                                     stats |-> ZeroStats])]

\* update_import_status's UPDATE
UpdateImport(d, id, status, stats) ==
    [d EXCEPT !.imports[id].status = status, !.imports[id].stats = stats]

(***************************************************************************)
(* importers/inpatient_importer.py                                         *)
(***************************************************************************)
\* dob.strftime("%Y-%m-%d") of a midnight datetime: its day
DateStr(d) == <<"date", d[1]>>

LivePatients(ps, emrId) ==
    {i \in 1..Len(ps) : ps[i].emrPatientId = emrId /\ ~ps[i].deleted}

\* cur.fetchone() of the SELECT: the first matching row
FirstOf(S) == CHOOSE i \in S : \A j \in S : i <= j

IdentityChangedMutant(old, row) == old.name # row.name \/ old.sex # row.sex

identity_changed(old, row) ==
    \/ old.name # row.name
    \/ DateStr(old.dob) # DateStr(row.dob)
    \/ old.sex # row.sex

UpsertPatientFillsIn(d, row, importId) ==
    LET live == LivePatients(d.patients, row.id)
    IN  IF live = {}
        THEN [db |-> [d EXCEPT !.patients =
                        Append(@, [emrPatientId |-> row.id, name |-> row.name,
                                   dob |-> row.dob, sex |-> row.sex,
                                   phone |-> row.phone, status |-> "ACTIVE",
                                   deleted |-> FALSE])],
              counted |-> "created"]
        ELSE [db |-> [d EXCEPT !.patients[FirstOf(live)].name = row.name,
                               !.patients[FirstOf(live)].dob = row.dob,
                               !.patients[FirstOf(live)].sex = row.sex],
              counted |-> "updated"]

\* one iteration of upsert_patients' loop on the connection's view d:
\* the view after it and the counter it incremented
UpsertPatient(d, row, importId) ==
    LET live == LivePatients(d.patients, row.id)
    IN  IF live = {}
        THEN [db |-> [d EXCEPT !.patients =
                        Append(@, [emrPatientId |-> row.id, name |-> row.name,
                                   dob |-> row.dob, sex |-> row.sex,
                                   phone |-> row.phone, status |-> "ACTIVE",
                                   deleted |-> FALSE])],
              counted |-> "created"]
        ELSE LET pid == FirstOf(live)
                 old == d.patients[pid]
             IN  IF identity_changed(old, row)
                 THEN [db |-> [d EXCEPT !.conflicts =
                                 Append(@, [importId |-> importId,
                                            emrPatientId |-> row.id,
                                            before |-> [name |-> old.name,
                                                        dob |-> DateStr(old.dob),
                                                        sex |-> old.sex],
                                            after |-> [name |-> row.name,
                                                       dob |-> DateStr(row.dob),
                                                       sex |-> row.sex],
                                            status |-> "OPEN"])],
                       counted |-> "conflicts"]
                 ELSE IF old.phone # row.phone /\ row.phone # "None"
                 THEN [db |-> [d EXCEPT !.patients[pid].phone = row.phone],
                       counted |-> "updated"]
                 ELSE [db |-> d, counted |-> "skipped"]

CountNotSkipped(stats, counter) ==
    IF counter = "skipped" THEN stats ELSE [stats EXCEPT ![counter] = @ + 1]

Count(stats, counter) ==
    [stats EXCEPT ![counter] = @ + 1]

\* save_import_errors (inpatient): one ImportError per error row
RECURSIVE InsertErrors(_, _, _, _, _)
InsertErrors(d, importId, code, errs, k) ==
    IF k > Len(errs) THEN d
    ELSE InsertErrors(
            [d EXCEPT !.importErrors =
                Append(@, [importId |-> importId, errorCode |-> code,
                           message |-> errs[k].errors,
                           rowNumber |-> errs[k].rowNumber])],
            importId, code, errs, k + 1)

(***************************************************************************)
(* importers/outpatient_importer.py                                        *)
(*                                                                         *)
(* A timestamp text f"{date}T{time}:00" or str(datetime) is a record       *)
(* [date, sep, time]: both are 19 characters, so one is contained in the   *)
(* other exactly when they are equal.  A stored timestamp is               *)
(* <<day, hour, minute>>.                                                  *)
(***************************************************************************)
ClinicRooms == {"Room1"}

\* start_at = f"{apt_date}T{start_time}:00"
IsoText(date, time) == [date |-> date[1], sep |-> "T", time |-> time]

\* str(existing[1]) of the datetime psycopg2 returns for a timestamp column
StrOfTimestamp(ts) == [date |-> ts[1], sep |-> " ", time |-> <<ts[2], ts[3]>>]

\* start_at in old_start
TextIn(a, b) == a = b

\* PostgreSQL's reading of the text as a timestamp: <<>> when it raises
\* "date/time field value out of range" (hour 24 is accepted with :00 only)
PgTimestamp(text) ==
    IF text.time[1] < 24 THEN <<text.date, text.time[1], text.time[2]>>
    ELSE IF text.time[1] = 24 /\ text.time[2] = 0 THEN <<text.date + 1, 0, 0>>
    ELSE <<>>

\* _find_or_create_patient: the view after it and the patient's id
FindOrCreatePatientNoLookup(d, emrId, name) ==
    [db |-> [d EXCEPT !.patients =
               Append(@, [emrPatientId |-> emrId, name |-> name,
                          dob |-> <<0 - 25567>>, sex |-> "M",
                          phone |-> "None", status |-> "ACTIVE",
                          deleted |-> FALSE])],
     id |-> Len(d.patients) + 1]

find_or_create_patient(d, emrId, name) ==
    LET live == LivePatients(d.patients, emrId)
    IN  IF live # {} THEN [db |-> d, id |-> FirstOf(live)]
        ELSE [db |-> [d EXCEPT !.patients =
                        Append(@, [emrPatientId |-> emrId, name |-> name,
                                   dob |-> <<0 - 25567>>, sex |-> "M",
                                   phone |-> "None", status |-> "ACTIVE",
                                   deleted |-> FALSE])],
              id |-> Len(d.patients) + 1]

LiveDoctorsById(ds, emrDoctorId) ==
    {i \in 1..Len(ds) : ds[i].emrDoctorId = emrDoctorId /\ ~ds[i].deleted}

LiveDoctorsByName(ds, name) ==
    {i \in 1..Len(ds) : ds[i].name = name /\ ~ds[i].deleted}

\* _find_or_create_doctor: the view after it and the doctor's id, 0 for None
find_or_create_doctor(d, name, emrDoctorId) ==
    LET byId == LiveDoctorsById(d.doctors, emrDoctorId)
        byName == LiveDoctorsByName(d.doctors, name)
    IN  IF emrDoctorId # "" /\ byId # {} THEN [db |-> d, id |-> FirstOf(byId)]
        ELSE IF name = "" THEN [db |-> d, id |-> 0]
        ELSE IF byName # {} THEN [db |-> d, id |-> FirstOf(byName)]
        ELSE [db |-> [d EXCEPT !.doctors =
                        Append(@, [name |-> name, emrDoctorId |-> emrDoctorId,
                                   deleted |-> FALSE])],
              id |-> Len(d.doctors) + 1]

\* _find_clinic_room: "" for None
find_clinic_room(name) == IF name \in ClinicRooms THEN name ELSE ""

LiveApptsNone(as, emrApptId) == {}

LiveAppts(as, emrApptId) ==
    {i \in 1..Len(as) : as[i].emrAppointmentId = emrApptId /\ ~as[i].deleted}

\* the part of one row up to and including the SELECT of the existing
\* appointment: the view after it and what the row's locals hold
\* (doctorId 0: the row is skipped; existing 0: no appointment found)
SelectForRow(d, row) ==
    LET p == find_or_create_patient(d, row.emrPatientId, row.patientName)
        q == find_or_create_doctor(p.db, row.doctorName, row.emrDoctorId)
        live == IF row.emrAppointmentId = "" THEN {}
                ELSE LiveAppts(q.db.appts, row.emrAppointmentId)
        found == IF live = {} THEN 0 ELSE FirstOf(live)
    IN  [db |-> q.db,
         sel |-> [patientId |-> p.id, doctorId |-> q.id,
                  clinicRoomId |-> find_clinic_room(row.clinicRoomName),
                  existing |-> found,
                  old |-> IF found = 0 \/ q.id = 0 THEN <<>>
                          ELSE <<[startAt |-> q.db.appts[found].startAt,
                                  endAt |-> q.db.appts[found].endAt,
                                  doctorId |-> q.db.appts[found].doctorId,
                                  status |-> q.db.appts[found].status,
                                  source |-> q.db.appts[found].source]>>]]

\* the change detection on the selected values
Changed(old, row, doctorId) ==
    \/ ~TextIn(IsoText(row.appointmentDate, row.startTime), StrOfTimestamp(old.startAt))
    \/ ~TextIn(IsoText(row.appointmentDate, row.endTime), StrOfTimestamp(old.endAt))
    \/ doctorId # old.doctorId
    \/ row.status # old.status

\* the UPDATE of the INTERNAL branch
FlagConflict(d, id) ==
    [d EXCEPT !.appts[id].conflictFlag = TRUE, !.appts[id].version = @ + 1]

\* the UPDATE of the EMR branch
Overwrite(d, id, row, sel) ==
    [d EXCEPT !.appts[id] =
        [@ EXCEPT !.startAt = PgTimestamp(IsoText(row.appointmentDate, row.startTime)),
                  !.endAt = PgTimestamp(IsoText(row.appointmentDate, row.endTime)),
                  !.doctorId = sel.doctorId,
                  !.clinicRoomId = sel.clinicRoomId,
                  !.status = row.status,
                  !.notes = row.notes,
                  !.source = "EMR",
                  !.version = @ + 1]]

InsertAppt(d, row, sel) ==
    [d EXCEPT !.appts =
        Append(@, [emrAppointmentId |-> row.emrAppointmentId,
                   patientId |-> sel.patientId, doctorId |-> sel.doctorId,
                   clinicRoomId |-> sel.clinicRoomId,
                   startAt |-> PgTimestamp(IsoText(row.appointmentDate, row.startTime)),
                   endAt |-> PgTimestamp(IsoText(row.appointmentDate, row.endTime)),
                   status |-> row.status, source |-> "EMR", notes |-> row.notes,
                   conflictFlag |-> FALSE, version |-> 0, deleted |-> FALSE])]

TimestampsOk(row) ==
    /\ PgTimestamp(IsoText(row.appointmentDate, row.startTime)) # <<>>
    /\ PgTimestamp(IsoText(row.appointmentDate, row.endTime)) # <<>>

\* the rest of the row, on the view d as it is when the statement runs:
\* the view after it, the counter incremented and whether the statement
\* raised (a row that raises is counted as skipped)
WriteForRow(d, row, sel) ==
    IF sel.doctorId = 0 THEN [db |-> d, counted |-> "skipped", raised |-> FALSE]
    ELSE IF sel.existing # 0
    THEN IF Changed(sel.old[1], row, sel.doctorId)
         THEN IF sel.old[1].source = "INTERNAL"
              THEN [db |-> FlagConflict(d, sel.existing), counted |-> "conflicts",
                    raised |-> FALSE]
              ELSE IF TimestampsOk(row)
              THEN [db |-> Overwrite(d, sel.existing, row, sel), counted |-> "updated",
                    raised |-> FALSE]
              ELSE [db |-> d, counted |-> "skipped", raised |-> TRUE]
         ELSE [db |-> d, counted |-> "skipped", raised |-> FALSE]
    ELSE IF TimestampsOk(row)
    THEN [db |-> InsertAppt(d, row, sel), counted |-> "created", raised |-> FALSE]
    ELSE [db |-> d, counted |-> "skipped", raised |-> TRUE]

(***************************************************************************)
(* worker.py: run_inpatient_batch / run_outpatient_batch and               *)
(* process_inpatient_file / process_outpatient_file.                       *)
(*                                                                         *)
(* pc is "idle" between batches, "file" at the start of process_*_file for *)
(* the head of the queue, "upsert" inside the importer's loop over the     *)
(* valid rows and "except" at the handler of the file-level try.           *)
(***************************************************************************)
NoFrame ==
    [importId |-> 0, valid |-> <<>>, nErrors |-> 0, nRows |-> 0, idx |-> 0,
     sel |-> <<>>, stats |-> ZeroStats, exc |-> ""]

CurFile == Head(queue)

KindOf(f) == files[f].kind

RECURSIVE Descending(_)
Descending(S) ==
    IF S = {} THEN <<>>
    ELSE LET m == CHOOSE x \in S : \A y \in S : x >= y
         IN  <<m>> \o Descending(S \ {m})

RECURSIVE Ascending(_)
Ascending(S) ==
    IF S = {} THEN <<>>
    ELSE LET m == CHOOSE x \in S : \A y \in S : x <= y
         IN  <<m>> \o Ascending(S \ {m})

\* sorted(glob.glob(os.path.join(folder, "*.xlsx")))
Watched(kind) ==
    Ascending({f \in DOMAIN files : files[f].kind = kind /\ files[f].dir = "watched"})

\* the file-level function returns (or its exception reaches the batch
\* loop's handler): the connection is closed, the loop goes on
Return ==
    /\ queue' = Tail(queue)
    /\ pc' = IF Tail(queue) = <<>> THEN "idle" ELSE "file"
    /\ fr' = NoFrame
    /\ txn' = "ok"

\* main: each scheduled time (and --run-now) runs run_inpatient_batch and
\* then run_outpatient_batch; cycles counts the batch runs started
NextBatch == IF cycles % 2 = 0 THEN "INPATIENT" ELSE "OUTPATIENT"

StartBatch(kind) ==
    /\ pc = "idle"
    /\ kind = NextBatch
    /\ cycles < MaxCycles
    /\ cycles' = cycles + 1
    /\ queue' = Watched(kind)
    /\ pc' = IF Watched(kind) = <<>> THEN "idle" ELSE "file"
    /\ UNCHANGED <<valVars, parseVars, callVars, files, db, dbc, txn, fr, faults>>

\* 1. the receipt check fails: the file is skipped
SkipNotReady ==
    /\ pc = "file"
    /\ ~is_file_ready(files[CurFile])
    /\ Return
    /\ UNCHANGED <<valVars, parseVars, callVars, files, db, dbc, cycles, faults>>

\* 2. the integrity check fails: the file goes to the error folder
RejectInvalid ==
    /\ pc = "file"
    /\ is_file_ready(files[CurFile])
    /\ ~validate_xlsx(files[CurFile])
    /\ files' = [files EXCEPT ![CurFile] = move_to_error(@)]
    /\ Return
    /\ UNCHANGED <<valVars, parseVars, callVars, db, dbc, cycles, faults>>

\* 3. the fingerprint is known: the file goes to the archive
ArchiveDuplicate ==
    /\ pc = "file"
    /\ is_file_ready(files[CurFile])
    /\ validate_xlsx(files[CurFile])
    /\ check_duplicate(compute_sha256(files[CurFile].sheet), db)
    /\ files' = [files EXCEPT ![CurFile] = move_to_archive(@)]
    /\ Return
    /\ UNCHANGED <<valVars, parseVars, callVars, db, dbc, cycles, faults>>

\* 4. create_import_record, committed at once
CreateImport ==
    /\ pc = "file"
    /\ is_file_ready(files[CurFile])
    /\ validate_xlsx(files[CurFile])
    /\ ~check_duplicate(compute_sha256(files[CurFile].sheet), db)
    /\ db' = InsertImport(db, CurFile, compute_sha256(files[CurFile].sheet),
                          KindOf(CurFile))
    /\ dbc' = db'
    /\ fr' = [NoFrame EXCEPT !.importId = Len(db.imports) + 1]
    /\ pc' = "parse"
    /\ UNCHANGED <<valVars, parseVars, callVars, files, txn, queue, cycles, faults>>

ParseResult(f) ==
    IF KindOf(f) = "INPATIENT" THEN parse_inpatient_file(files[f].sheet)
    ELSE parse_outpatient_file(files[f].sheet)

\* steps 6 of the two functions: validate_rows for an inpatient file, the
\* "_error" partition for an outpatient file
OutErrors(rows) ==
    LET bad == SelectSeq(rows, LAMBDA r : r.error # "")
    IN  [k \in 1..Len(bad) |->
            [rowNumber |-> bad[k].row, errors |-> <<bad[k].error>>, raw |-> bad[k]]]

Partition(kind, rows) ==
    IF kind = "INPATIENT" THEN validate_rows(rows)
    ELSE [valid |-> SelectSeq(rows, LAMBDA r : r.error = ""),
          errors |-> OutErrors(rows)]

ErrorCode(kind) == IF kind = "INPATIENT" THEN "VALIDATION_ERROR" ELSE "PARSE_ERROR"

\* 5. the parser raises: control goes to the handler
ParseRaises ==
    /\ pc = "parse"
    /\ ParseResult(CurFile).raise # ""
    /\ fr' = [fr EXCEPT !.exc = ParseResult(CurFile).raise]
    /\ pc' = "except"
    /\ UNCHANGED <<valVars, parseVars, callVars, files, db, dbc, txn, queue, cycles, faults>>

ParseEmptyNoBranch ==
    /\ pc = "parse"
    /\ ParseResult(CurFile).raise = ""
    /\ ParseResult(CurFile).rows = <<>>
    /\ db' = UpdateImport(db, fr.importId, "SUCCESS", ZeroStats)
    /\ dbc' = db'
    /\ files' = [files EXCEPT ![CurFile] = move_to_archive(@)]
    /\ Return
    /\ UNCHANGED <<valVars, parseVars, callVars, cycles, faults>>

\* 5. the parser returns no rows: SUCCESS with the no-data note, archive
ParseEmpty ==
    /\ pc = "parse"
    /\ ParseResult(CurFile).raise = ""
    /\ ParseResult(CurFile).rows = <<>>
    /\ db' = UpdateImport(db, fr.importId, "SUCCESS", [ZeroStats EXCEPT !.note = "noData"])
    /\ dbc' = db'
    /\ files' = [files EXCEPT ![CurFile] = move_to_archive(@)]
    /\ Return
    /\ UNCHANGED <<valVars, parseVars, callVars, cycles, faults>>

\* 5-7. rows are parsed, partitioned, and the error rows saved and committed
ParseRows ==
    /\ pc = "parse"
    /\ ParseResult(CurFile).raise = ""
    /\ ParseResult(CurFile).rows # <<>>
    /\ LET rows == ParseResult(CurFile).rows
           part == Partition(KindOf(CurFile), rows)
       IN  /\ db' = InsertErrors(db, fr.importId, ErrorCode(KindOf(CurFile)),
                                 part.errors, 1)
           /\ fr' = [fr EXCEPT !.valid = part.valid, !.nErrors = Len(part.errors),
                               !.nRows = Len(rows), !.idx = 1]
    /\ dbc' = db'
    /\ pc' = "upsert"
    /\ UNCHANGED <<valVars, parseVars, callVars, files, txn, queue, cycles, faults>>

\* 8. upsert_patients: one row of the loop
UpsertPatientRow ==
    /\ pc = "upsert"
    /\ KindOf(CurFile) = "INPATIENT"
    /\ fr.idx <= Len(fr.valid)
    /\ LET r == UpsertPatient(db, fr.valid[fr.idx], fr.importId)
       IN  /\ db' = r.db
           /\ fr' = [fr EXCEPT !.idx = @ + 1, !.stats = Count(@, r.counted)]
    /\ UNCHANGED <<valVars, parseVars, callVars, files, dbc, txn, pc, queue, cycles, faults>>

\* 8. a statement of the row raises (psycopg2.Error): the server aborts the
\* transaction and the exception leaves upsert_patients
UpsertPatientRowRaises ==
    /\ pc = "upsert"
    /\ KindOf(CurFile) = "INPATIENT"
    /\ fr.idx <= Len(fr.valid)
    /\ faults < MaxFaults
    /\ faults' = faults + 1
    /\ txn' = "aborted"
    /\ fr' = [fr EXCEPT !.exc = "databaseError"]
    /\ pc' = "except"
    /\ UNCHANGED <<valVars, parseVars, callVars, files, db, dbc, queue, cycles>>

FinalStatusMutant(nErrors, nRows) == IF nErrors > 0 THEN "FAIL" ELSE "SUCCESS"

FinalStatus(nErrors, nRows) == IF nErrors = nRows THEN "FAIL" ELSE "SUCCESS"

\* 8-9. the loop is over: conn.commit(), the final status, the archive
FinishFile ==
    /\ pc = "upsert"
    /\ fr.idx > Len(fr.valid)
    /\ LET kept == IF txn = "ok" THEN db ELSE dbc
           stats == [fr.stats EXCEPT !.totalRows = fr.nRows, !.errorRows = fr.nErrors]
       IN  db' = UpdateImport(kept, fr.importId, FinalStatus(fr.nErrors, fr.nRows), stats)
    /\ dbc' = db'
    /\ files' = [files EXCEPT ![CurFile] = move_to_archive(@)]
    /\ Return
    /\ UNCHANGED <<valVars, parseVars, callVars, cycles, faults>>

HandleExceptionEndsLoop ==
    /\ pc = "except"
    /\ pc' = "crashed"
    /\ UNCHANGED <<valVars, parseVars, callVars, files, db, dbc, txn, queue, fr, cycles, faults>>

\* the handler: update_import_status(FAIL), then move_to_error.  On an
\* aborted transaction the UPDATE raises InFailedSqlTransaction: the
\* handler is left before the move, the connection is closed (a rollback)
\* and the batch loop logs the exception.
HandleException ==
    /\ pc = "except"
    /\ IF txn = "aborted"
       THEN /\ db' = dbc
            /\ UNCHANGED <<dbc, files>>
       ELSE /\ db' = UpdateImport(db, fr.importId, "FAIL",
                                  [ZeroStats EXCEPT !.note = fr.exc])
            /\ dbc' = db'
            /\ files' = [files EXCEPT ![CurFile] = move_to_error(@)]
    /\ Return
    /\ UNCHANGED <<valVars, parseVars, callVars, cycles, faults>>

\* the sender writes the receipt marker of a delivered file
MarkerArrives(f) ==
    /\ pc = "idle"
    /\ files[f].dir = "watched"
    /\ files[f].marker = "none"
    /\ files' = [files EXCEPT ![f].marker = "watched"]
    /\ UNCHANGED <<valVars, parseVars, callVars, db, dbc, txn, pc, queue, fr, cycles, faults>>

\* 8. upsert_appointments, one row, up to the SELECT of the appointment
UpsertApptSelect ==
    /\ pc = "upsert"
    /\ KindOf(CurFile) = "OUTPATIENT"
    /\ fr.idx <= Len(fr.valid)
    /\ fr.sel = <<>>
    /\ txn = "ok"
    /\ LET r == SelectForRow(db, fr.valid[fr.idx])
       IN  /\ db' = r.db
           /\ fr' = [fr EXCEPT !.sel = <<r.sel>>]
    /\ UNCHANGED <<valVars, parseVars, callVars, files, dbc, txn, pc, queue, cycles, faults>>

\* 8. the rest of the row; a statement that raises aborts the transaction,
\* the except clause counts the row as skipped and the loop goes on
UpsertApptWrite ==
    /\ pc = "upsert"
    /\ KindOf(CurFile) = "OUTPATIENT"
    /\ fr.sel # <<>>
    /\ LET w == WriteForRow(db, fr.valid[fr.idx], fr.sel[1])
       IN  /\ db' = w.db
           /\ txn' = IF w.raised THEN "aborted" ELSE txn
           /\ fr' = [fr EXCEPT !.idx = @ + 1, !.sel = <<>>,
                               !.stats = Count(@, w.counted)]
    /\ UNCHANGED <<valVars, parseVars, callVars, files, dbc, pc, queue, cycles, faults>>

\* 8. a row after the transaction was aborted: its first statement raises
\* InFailedSqlTransaction and the row is counted as skipped
UpsertApptAborted ==
    /\ pc = "upsert"
    /\ KindOf(CurFile) = "OUTPATIENT"
    /\ fr.idx <= Len(fr.valid)
    /\ txn = "aborted"
    /\ fr' = [fr EXCEPT !.idx = @ + 1, !.stats = Count(@, "skipped")]
    /\ UNCHANGED <<valVars, parseVars, callVars, files, db, dbc, txn, pc, queue, cycles, faults>>

FileSteps ==
    \/ SkipNotReady
    \/ RejectInvalid
    \/ ArchiveDuplicate
    \/ CreateImport
    \/ ParseRaises
    \/ ParseEmpty
    \/ ParseRows
    \/ FinishFile
    \/ HandleException

(***************************************************************************)
(* The interactive application (not part of the batch sources): a user     *)
(* reschedules appointment a to 11:00-11:30, which marks it INTERNAL, and  *)
(* the change is committed at once.  A row the importer has updated but    *)
(* not committed is locked.                                                *)
(***************************************************************************)
Rescheduled(appt) ==
    [appt EXCEPT !.startAt = <<@[1], 11, 0>>, !.endAt = <<@[1], 11, 30>>,
                 !.source = "INTERNAL"]

EditApplies(a) ==
    /\ a \in 1..Len(dbc.appts)
    /\ ~dbc.appts[a].deleted
    /\ db.appts[a] = dbc.appts[a]
    /\ dbc.appts[a] # Rescheduled(dbc.appts[a])

\* between batch runs
InternalEdit(a) ==
    /\ pc = "idle"
    /\ EditApplies(a)
    /\ dbc' = [dbc EXCEPT !.appts[a] = Rescheduled(@)]
    /\ db' = [db EXCEPT !.appts[a] = Rescheduled(@)]
    /\ UNCHANGED <<valVars, parseVars, callVars, files, txn, pc, queue, fr, cycles, faults>>

\* while the worker is processing a file
InternalEditDuring(a) ==
    /\ pc # "idle"
    /\ EditApplies(a)
    /\ dbc' = [dbc EXCEPT !.appts[a] = Rescheduled(@)]
    /\ db' = [db EXCEPT !.appts[a] = Rescheduled(@)]
    /\ UNCHANGED <<valVars, parseVars, callVars, files, txn, pc, queue, fr, cycles, faults>>

(***************************************************************************)
(* The worker on two delivered files of one document type.                 *)
(***************************************************************************)
InPipePool ==
    { InRaw("P1", "Kim", <<Now.day - 10000>>, "nam", ""),
      InRaw("P1", "Kim", <<Now.day - 10000>>, "M", "010-1234"),
      InRaw("P1", "Kim", <<Now.day - 9000>>, "M", ""),
      InRaw("P2", "", <<Now.day - 10000>>, "F", "") }

InPipeSheets ==
    {sh \in [opens : {TRUE}, top : {<<InFullHeader>>},
             data : SeqsUpTo(InPipePool, MaxRows)] : validate_xlsx([dir |-> "watched", sheet |-> sh])}
    \cup { [opens |-> FALSE, top |-> <<>>, data |-> <<>>],
           [opens |-> TRUE, top |-> <<InFullHeader>>,
            data |-> <<InRaw("", "", <<>>, "", "")>>],
           [opens |-> TRUE, top |-> <<<<"title">>, <<"patientNo", "patientName">>>>,
            data |-> <<InRaw("P1", "Kim", <<Now.day - 10000>>, "nam", "")>>],
           [opens |-> TRUE, top |-> <<<<"patientNo", "patientName", "birthDate", "sex">>>>,
            data |-> <<InRaw("P1", "Kim", <<Now.day - 10000>>, "nam", "")>>] }

OutPipeHeader ==
    <<"patientNo", "patientName", "apptDay", "startTime", "endTime", "doctor", "apptNo">>

OutPipePool ==
    { OutRaw("P1", "Kim", <<9, 0>>, <<>>, "DrA", "A1", ""),
      OutRaw("P1", "Kim", <<10, 0>>, <<>>, "DrA", "A1", ""),
      OutRaw("P2", "Lee", <<23, 45>>, <<>>, "DrA", "A2", ""),
      OutRaw("P2", "Lee", <<>>, <<>>, "DrA", "", "chwiso") }

OutPipeSheets ==
    {sh \in [opens : {TRUE}, top : {<<OutPipeHeader>>},
             data : SeqsUpTo(OutPipePool, MaxRows)] : validate_xlsx([dir |-> "watched", sheet |-> sh])}
    \cup { [opens |-> FALSE, top |-> <<>>, data |-> <<>>],
           [opens |-> TRUE, top |-> <<OutPipeHeader>>,
            data |-> <<OutRaw("P1", "Kim", <<10, 0>>, <<>>, "", "A1", "")>>],
           [opens |-> TRUE, top |-> <<<<"title">>, <<"patientNo", "patientName">>>>,
            data |-> <<OutRaw("P1", "Kim", <<9, 0>>, <<>>, "DrA", "A1", "")>>] }

FileIds == {1, 2}

\* the appointments the user may open
ApptIds == {1, 2}

FilesOf(kind, sheets) ==
    [FileIds -> [kind : {kind}, sheet : sheets,
                 dir : {"watched"}, marker : {"watched", "none"}]]

InitPipe ==
    /\ db = EmptyDb /\ dbc = EmptyDb
    /\ txn = "ok" /\ pc = "idle" /\ queue = <<>> /\ fr = NoFrame
    /\ cycles = 0 /\ faults = 0
    /\ ValidateOff /\ ParseOff /\ CallOff

InitWorker ==
    /\ files \in FilesOf("INPATIENT", InPipeSheets) \cup FilesOf("OUTPATIENT", OutPipeSheets)
    /\ InitPipe

NextWorker ==
    \/ StartBatch("INPATIENT")
    \/ StartBatch("OUTPATIENT")
    \/ FileSteps
    \/ UpsertPatientRow
    \/ UpsertPatientRowRaises
    \/ UpsertApptSelect
    \/ UpsertApptWrite
    \/ UpsertApptAborted
    \/ \E f \in FileIds : MarkerArrives(f)
    \/ \E a \in ApptIds : InternalEdit(a)

SpecWorker == InitWorker /\ [][NextWorker]_vars

\* The worker keeps running: a statement that does not raise returns, the
\* loops over rows and files advance, and the scheduler's loop starts the
\* next batch run.  Faults, deliveries and edits are under no obligation.
WorkerProgress ==
    \/ StartBatch("INPATIENT")
    \/ StartBatch("OUTPATIENT")
    \/ SkipNotReady
    \/ RejectInvalid
    \/ ArchiveDuplicate
    \/ CreateImport
    \/ FinishFile
    \/ HandleException
    \/ UpsertPatientRow
    \/ UpsertApptSelect
    \/ UpsertApptWrite
    \/ UpsertApptAborted

\* two delivered files out of a few sheets of each document type
LiveInSheets ==
    { [opens |-> TRUE, top |-> <<InFullHeader>>,
       data |-> <<InRaw("P1", "Kim", <<Now.day - 10000>>, "nam", ""),
                  InRaw("P2", "", <<Now.day - 10000>>, "F", "")>>],
      [opens |-> TRUE, top |-> <<<<"patientNo", "patientName", "birthDate", "sex">>>>,
       data |-> <<InRaw("P1", "Kim", <<Now.day - 10000>>, "nam", "")>>],
      [opens |-> FALSE, top |-> <<>>, data |-> <<>>] }

LiveOutSheets ==
    { [opens |-> TRUE, top |-> <<OutPipeHeader>>,
       data |-> <<OutRaw("P1", "Kim", <<9, 0>>, <<>>, "DrA", "A1", "")>>],
      [opens |-> TRUE, top |-> <<OutPipeHeader>>,
       data |-> <<OutRaw("P2", "Lee", <<23, 45>>, <<>>, "DrA", "A2", ""),
                  OutRaw("P1", "Kim", <<10, 0>>, <<>>, "DrA", "A1", "")>>],
      [opens |-> TRUE, top |-> <<<<"title">>, <<"patientNo", "patientName">>>>,
       data |-> <<OutRaw("P1", "Kim", <<9, 0>>, <<>>, "DrA", "A1", "")>>] }

InitLive ==
    /\ files \in FilesOf("INPATIENT", LiveInSheets) \cup FilesOf("OUTPATIENT", LiveOutSheets)
    /\ InitPipe

\* the call of the parser (worker.py lines 147 and 238) returns or raises: one
\* of ParseRaises, ParseEmpty and ParseRows is enabled whenever pc = "parse",
\* and only they leave it
ParseReturns == []<>(pc # "parse")

SpecWorkerLive ==
    InitLive /\ [][NextWorker]_vars /\ WF_vars(WorkerProgress) /\ ParseReturns

(***************************************************************************)
(* The outpatient importer with the interactive application writing while  *)
(* a file is being imported.                                               *)
(***************************************************************************)
InitConc ==
    /\ files \in FilesOf("OUTPATIENT", OutPipeSheets)
    /\ InitPipe

\* parse_outpatient_file raises nothing, so the handler is never entered
NextConc ==
    \/ StartBatch("INPATIENT")
    \/ StartBatch("OUTPATIENT")
    \/ SkipNotReady
    \/ RejectInvalid
    \/ ArchiveDuplicate
    \/ CreateImport
    \/ ParseEmpty
    \/ ParseRows
    \/ FinishFile
    \/ UpsertApptSelect
    \/ UpsertApptWrite
    \/ UpsertApptAborted
    \/ \E f \in FileIds : MarkerArrives(f)
    \/ \E a \in ApptIds : InternalEdit(a)
    \/ \E a \in ApptIds : InternalEditDuring(a)

SpecConc == InitConc /\ [][NextConc]_vars

(***************************************************************************)
(* Duplicate fingerprints.                                                 *)
(***************************************************************************)
\* the worker is at the start of process_*_file for a ready, valid file
AtReadyValidFile ==
    /\ pc = "file"
    /\ is_file_ready(files[CurFile])
    /\ validate_xlsx(files[CurFile])

ImportsOfContent(f) ==
    {i \in 1..Len(dbc.imports) :
        dbc.imports[i].fileHash = compute_sha256(files[f].sheet)}

\* content that was run before under another filename
EarlierRuns == {i \in ImportsOfContent(CurFile) : dbc.imports[i].filePath # CurFile}

\* the step writes nothing to the database and moves the file to the archive
OnlyArchives ==
    /\ db' = db
    /\ dbc' = dbc
    /\ files'[CurFile].dir = "archive"
    /\ \A g \in DOMAIN files \ {CurFile} : files'[g] = files[g]

AtMostOneSuccess ==
    \A i, j \in 1..Len(dbc.imports) :
        (/\ dbc.imports[i].fileHash = dbc.imports[j].fileHash
         /\ dbc.imports[i].status = "SUCCESS"
         /\ dbc.imports[j].status = "SUCCESS") => i = j

\* C1 as stated: a run on content that was run before under another
\* filename only archives the file as a duplicate.
C1_SecondRun_OnlyArchives ==
    [][(AtReadyValidFile /\ EarlierRuns # {}) => OnlyArchives]_vars

\* C1: no fingerprint ever has two SUCCESS Imports; a run on content whose
\* earlier run under another filename is SUCCESS or PROCESSING only archives
\* the file and writes no row; when every earlier run ended FAIL the content
\* is processed again under a new Import.
C1_SecondRun_NoSecondSuccess ==
    /\ []AtMostOneSuccess
    /\ [][(AtReadyValidFile /\ EarlierRuns # {}) =>
            IF \E i \in EarlierRuns : dbc.imports[i].status \in {"SUCCESS", "PROCESSING"}
            THEN /\ OnlyArchives
                 /\ db'.patients = db.patients /\ db'.appts = db.appts
            ELSE /\ Len(dbc'.imports) = Len(dbc.imports) + 1
                 /\ dbc'.imports[Len(dbc'.imports)].status = "PROCESSING"
                 /\ files' = files]_vars

C1_Witness ==
    \E f, g \in DOMAIN files :
        /\ f # g
        /\ files[f].sheet = files[g].sheet
        /\ \E i \in 1..Len(dbc.imports) :
              dbc.imports[i].filePath = f /\ dbc.imports[i].status = "SUCCESS"
        /\ \A i \in 1..Len(dbc.imports) : dbc.imports[i].filePath # g
        /\ files[g].dir = "archive"
        /\ pc = "idle"

\* C2: a ready, valid file whose hash is that of an Import in status SUCCESS
\* or PROCESSING is only archived: no table is written, the earlier Import
\* is unchanged, the file goes to the archive folder.
C2_DuplicateFingerprint_PureArchive ==
    [][(/\ AtReadyValidFile
        /\ \E i \in ImportsOfContent(CurFile) :
              dbc.imports[i].status \in {"SUCCESS", "PROCESSING"})
       => (/\ OnlyArchives
           /\ files'[CurFile].marker = "none")]_vars

C2_Witness ==
    \E f \in DOMAIN files :
        /\ files[f].dir = "archive"
        /\ \A i \in 1..Len(dbc.imports) : dbc.imports[i].filePath # f
        /\ \E i \in ImportsOfContent(f) : dbc.imports[i].status = "PROCESSING"

(***************************************************************************)
(* upsert_patients.                                                        *)
(***************************************************************************)
\* C3: for a valid inpatient row whose emrPatientId matches a live Patient,
\* if name, dob or sex differs the Patient table is unchanged and exactly
\* one OPEN PatientIdentityConflict (before = stored, after = row) is
\* added; if none differs no conflict is added.
C3_IdentityConflict_Excludes_Overwrite ==
    [][(/\ pc = "upsert"
        /\ KindOf(CurFile) = "INPATIENT"
        /\ fr.idx <= Len(fr.valid)
        /\ fr'.idx = fr.idx + 1
        /\ LivePatients(db.patients, fr.valid[fr.idx].id) # {})
       => LET row == fr.valid[fr.idx]
              old == db.patients[FirstOf(LivePatients(db.patients, row.id))]
          IN  IF old.name # row.name \/ old.dob # row.dob \/ old.sex # row.sex
              THEN /\ db'.patients = db.patients
                   /\ db'.conflicts =
                        Append(db.conflicts,
                               [importId |-> fr.importId, emrPatientId |-> row.id,
                                before |-> [name |-> old.name, dob |-> <<"date", old.dob[1]>>,
                                            sex |-> old.sex],
                                after |-> [name |-> row.name, dob |-> <<"date", row.dob[1]>>,
                                           sex |-> row.sex],
                                status |-> "OPEN"])
              ELSE db'.conflicts = db.conflicts]_vars

C3_Witness ==
    /\ \E c \in 1..Len(dbc.conflicts) :
          /\ dbc.conflicts[c].status = "OPEN"
          /\ dbc.conflicts[c].before # dbc.conflicts[c].after
    /\ \E p \in 1..Len(dbc.patients) :
          /\ dbc.patients[p].emrPatientId = "P1"
          /\ dbc.patients[p].dob = <<Now.day - 10000>>

(***************************************************************************)
(* The final status and the handler of process_*_file.                     *)
(***************************************************************************)
\* C6: a file parsed to a non-empty row list whose processing ends without
\* an exception has its Import FAIL when no row is in the valid partition
\* and SUCCESS when at least one is, for both document types.
C6_FinalStatus_FailIffAllRowsError ==
    [][(pc = "upsert" /\ pc' \notin {"upsert", "except"})
       => LET rows == ParseResult(CurFile).rows
              part == Partition(KindOf(CurFile), rows)
              st   == dbc'.imports[fr.importId].status
          IN  /\ rows # <<>>
              /\ Len(part.valid) = 0 => st = "FAIL"
              /\ Len(part.valid) >= 1 => st = "SUCCESS"]_vars

C6_Witness ==
    /\ \E i \in 1..Len(dbc.imports) :
          /\ dbc.imports[i].status = "SUCCESS"
          /\ dbc.imports[i].stats.errorRows >= 1
    /\ \E i \in 1..Len(dbc.imports) :
          /\ dbc.imports[i].status = "FAIL"
          /\ dbc.imports[i].stats.errorRows = dbc.imports[i].stats.totalRows
          /\ dbc.imports[i].stats.totalRows >= 1

\* C8: an exception raised after the Import was created leaves the Import
\* FAIL with the error message and the file in the error folder.
C8_Exception_ImportFail_FileQuarantined ==
    [][pc = "except"
       => /\ dbc'.imports[fr.importId].status = "FAIL"
          /\ dbc'.imports[fr.importId].stats.note = fr.exc
          /\ files'[CurFile].dir = "error"]_vars

NoHeaderDetected(f) ==
    /\ files[f].sheet.opens
    /\ IF KindOf(f) = "INPATIENT" THEN detect_header_row(files[f].sheet.top) = <<>>
       ELSE detect_header_row_out(files[f].sheet.top) = <<>>

\* C9: a file in which no header row is detected never has an Import
\* record and is never archived, for both document types.
C9_NoHeader_NoImport_NotArchived ==
    \A f \in DOMAIN files :
        NoHeaderDetected(f) =>
            /\ \A i \in 1..Len(dbc.imports) : dbc.imports[i].filePath # f
            /\ files[f].dir # "archive"

(***************************************************************************)
(* Appointments edited internally.                                         *)
(***************************************************************************)
Substance(appt) == <<appt.startAt, appt.endAt, appt.doctorId, appt.status>>

RowDisagrees(row, appt) ==
    \/ PgTimestamp(IsoText(row.appointmentDate, row.startTime)) # appt.startAt
    \/ PgTimestamp(IsoText(row.appointmentDate, row.endTime)) # appt.endAt
    \/ row.doctorName # dbc.doctors[appt.doctorId].name
    \/ row.status # appt.status

\* C4: an import of a file with a valid row that has the emrAppointmentId
\* of a live INTERNAL appointment and disagrees with it ends with that
\* appointment flagged, its version higher, its source INTERNAL and its
\* start, end, doctor and status as they were.
C4_InternalAppointment_FlaggedNotOverwritten ==
    [][(pc = "upsert" /\ pc' # "upsert" /\ KindOf(CurFile) = "OUTPATIENT")
       => \A a \in 1..Len(dbc.appts) :
            (/\ dbc.appts[a].source = "INTERNAL"
             /\ ~dbc.appts[a].deleted
             /\ \E k \in 1..Len(fr.valid) :
                   /\ fr.valid[k].emrAppointmentId = dbc.appts[a].emrAppointmentId
                   /\ RowDisagrees(fr.valid[k], dbc.appts[a]))
            => /\ dbc'.appts[a].conflictFlag
               /\ dbc'.appts[a].version > dbc.appts[a].version
               /\ dbc'.appts[a].source = "INTERNAL"
               /\ Substance(dbc'.appts[a]) = Substance(dbc.appts[a])]_vars

\* a step of the worker (the interactive application changes none of these)
WorkerStep == <<pc, fr, queue, cycles>>' # <<pc, fr, queue, cycles>>

\* C5: no step of the importer changes the start, end, doctor or status of
\* a committed INTERNAL appointment or resets its source, whenever the
\* internal edit was made.
C5_InternalEdit_SurvivesImport ==
    [][WorkerStep
       => \A a \in 1..Len(dbc.appts) :
            dbc.appts[a].source = "INTERNAL"
            => /\ dbc'.appts[a].source = "INTERNAL"
               /\ Substance(dbc'.appts[a]) = Substance(dbc.appts[a])]_vars

(***************************************************************************)
(* The receipt and integrity checks of process_*_file.                     *)
(***************************************************************************)
\* the sheet cannot be opened or has fewer than two rows
RejectedSheet(f) ==
    \/ ~files[f].sheet.opens
    \/ Len(files[f].sheet.top) + Len(files[f].sheet.data) < 2

\* C11: a ready file that validate_xlsx rejects is moved to the error
\* folder together with its receipt marker; no Import is created and
\* nothing else is written to the database.
C11_IntegrityFailure_QuarantinedNoImport ==
    [][(/\ pc = "file"
        /\ files[CurFile].marker = "watched"
        /\ RejectedSheet(CurFile))
       => (/\ db' = db
           /\ dbc' = dbc
           /\ files'[CurFile].dir = "error"
           /\ files'[CurFile].marker = "error"
           /\ \A g \in DOMAIN files \ {CurFile} : files'[g] = files[g])]_vars

C11_Witness ==
    \E f \in DOMAIN files :
        /\ RejectedSheet(f)
        /\ files[f].dir = "error"
        /\ files[f].marker = "error"
        /\ \A i \in 1..Len(dbc.imports) : dbc.imports[i].filePath # f

\* C12: processing a file whose receipt marker is absent writes nothing to
\* the database and moves no file, and every batch run enumerates every
\* file still in its watched folder, so the file is examined again.
C12_NotReady_NoTrace_ExaminedAgain ==
    [][/\ (pc = "file" /\ files[CurFile].marker # "watched")
          => (db' = db /\ dbc' = dbc /\ files' = files)
       /\ (pc = "idle" /\ cycles' = cycles + 1)
          => \A f \in DOMAIN files :
                (files[f].dir = "watched" /\ files[f].kind = NextBatch)
                => \E k \in 1..Len(queue') : queue'[k] = f]_vars

\* a file without marker has been skipped by two runs of its batch
C12_Witness ==
    /\ pc = "idle"
    /\ cycles = MaxCycles
    /\ \E f \in DOMAIN files :
          /\ files[f].dir = "watched"
          /\ files[f].marker = "none"
          /\ \A i \in 1..Len(dbc.imports) :
                dbc.imports[i].fileHash # compute_sha256(files[f].sheet)

(***************************************************************************)
(* The batch loop.                                                         *)
(***************************************************************************)
InQueue(f) == \E k \in 1..Len(queue) : queue[k] = f

\* C13: a batch run lists the files of its watched folder in ascending
\* filename order without repetition, takes them from the head one at a
\* time, goes on to the next file after an exception, and every listed
\* file becomes the file being processed and later leaves the list.
C13_Batch_EveryFileOnce_InOrder ==
    /\ [][/\ (pc = "idle" /\ cycles' = cycles + 1)
             => /\ \A i, j \in 1..Len(queue') : i < j => queue'[i] < queue'[j]
                /\ \A f \in DOMAIN files :
                      (files[f].dir = "watched" /\ files[f].kind = NextBatch)
                      <=> \E k \in 1..Len(queue') : queue'[k] = f
          /\ (pc \notin {"idle", "off"})
             => (queue' = queue \/ queue' = Tail(queue))
          /\ (pc = "except")
             => /\ queue' = Tail(queue)
                /\ pc' = IF Tail(queue) = <<>> THEN "idle" ELSE "file"]_vars
    /\ \A f \in FileIds :
          /\ (InQueue(f) /\ CurFile # f) ~> (pc = "file" /\ CurFile = f)
          /\ InQueue(f) ~> ~InQueue(f)

\* the second file is being processed after the handler of the first
\* raised and left its Import in PROCESSING
C13_Witness ==
    /\ pc = "file"
    /\ Len(queue) = 1
    /\ CurFile = 2
    /\ \E i \in 1..Len(dbc.imports) :
          dbc.imports[i].filePath = 1 /\ dbc.imports[i].status = "PROCESSING"

(***************************************************************************)
(* Row-level isolation in upsert_appointments.                             *)
(***************************************************************************)
\* a valid row whose statements raise nothing on their own
WritableRow(row) ==
    /\ row.emrAppointmentId # ""
    /\ (row.doctorName # "" \/ row.emrDoctorId # "")
    /\ TimestampsOk(row)

\* C14: when the loop over the valid rows of an outpatient file is over,
\* every valid row that raises nothing on its own has its Appointment
\* committed, whatever the other rows of the file did.
C14_RowRaises_OtherRowsCommitted ==
    [][(/\ pc = "upsert"
        /\ KindOf(CurFile) = "OUTPATIENT"
        /\ pc' # "upsert")
       => \A k \in 1..Len(fr.valid) :
             WritableRow(fr.valid[k])
             => LiveAppts(dbc'.appts, fr.valid[k].emrAppointmentId) # {}]_vars

(***************************************************************************)
(* The worker with a filesystem that may refuse a move: shutil.move in     *)
(* move_to_archive / move_to_error raises OSError (the target folder is    *)
(* not writable, the disk is full) and leaves the file where it was.       *)
(***************************************************************************)
\* 2. move_to_error raises: the exception leaves process_*_file and is
\* logged by the batch loop
RejectInvalidMoveRaises ==
    /\ pc = "file"
    /\ is_file_ready(files[CurFile])
    /\ ~validate_xlsx(files[CurFile])
    /\ faults < MaxFaults
    /\ faults' = faults + 1
    /\ Return
    /\ UNCHANGED <<valVars, parseVars, callVars, files, db, dbc, cycles>>

\* 3. move_to_archive raises outside the inner try: the connection is closed
\* and the batch loop logs the exception
ArchiveDuplicateMoveRaises ==
    /\ pc = "file"
    /\ is_file_ready(files[CurFile])
    /\ validate_xlsx(files[CurFile])
    /\ check_duplicate(compute_sha256(files[CurFile].sheet), db)
    /\ faults < MaxFaults
    /\ faults' = faults + 1
    /\ Return
    /\ UNCHANGED <<valVars, parseVars, callVars, files, db, dbc, cycles>>

\* 5. no rows: the SUCCESS update is committed, then move_to_archive raises
\* inside the try
ParseEmptyMoveRaises ==
    /\ pc = "parse"
    /\ ParseResult(CurFile).raise = ""
    /\ ParseResult(CurFile).rows = <<>>
    /\ faults < MaxFaults
    /\ faults' = faults + 1
    /\ db' = UpdateImport(db, fr.importId, "SUCCESS", [ZeroStats EXCEPT !.note = "noData"])
    /\ dbc' = db'
    /\ fr' = [fr EXCEPT !.exc = "moveFailed"]
    /\ pc' = "except"
    /\ UNCHANGED <<valVars, parseVars, callVars, files, txn, queue, cycles>>

\* 8-9. the final status is committed, then move_to_archive raises inside
\* the try
FinishFileMoveRaises ==
    /\ pc = "upsert"
    /\ fr.idx > Len(fr.valid)
    /\ faults < MaxFaults
    /\ faults' = faults + 1
    /\ LET kept == IF txn = "ok" THEN db ELSE dbc
           stats == [fr.stats EXCEPT !.totalRows = fr.nRows, !.errorRows = fr.nErrors]
       IN  db' = UpdateImport(kept, fr.importId, FinalStatus(fr.nErrors, fr.nRows), stats)
    /\ dbc' = db'
    /\ txn' = "ok"
    /\ fr' = [fr EXCEPT !.exc = "moveFailed"]
    /\ pc' = "except"
    /\ UNCHANGED <<valVars, parseVars, callVars, files, queue, cycles>>

\* the handler's update_import_status(FAIL) is committed, then
\* move_to_error raises: the batch loop logs the exception
HandleExceptionMoveRaises ==
    /\ pc = "except"
    /\ txn = "ok"
    /\ faults < MaxFaults
    /\ faults' = faults + 1
    /\ db' = UpdateImport(db, fr.importId, "FAIL", [ZeroStats EXCEPT !.note = fr.exc])
    /\ dbc' = db'
    /\ Return
    /\ UNCHANGED <<valVars, parseVars, callVars, files, cycles>>

NextFsFault ==
    \/ NextWorker
    \/ RejectInvalidMoveRaises
    \/ ArchiveDuplicateMoveRaises
    \/ ParseEmptyMoveRaises
    \/ FinishFileMoveRaises
    \/ HandleExceptionMoveRaises

SpecFsFault == InitLive /\ [][NextFsFault]_vars

(***************************************************************************)
(* The life of an Import record.                                           *)
(***************************************************************************)
\* C15: an Import is created PROCESSING, and one that is SUCCESS or FAIL
\* keeps its status in every later step.
C15_ImportStatus_FinalOnceSet ==
    [][\A i \in 1..Len(dbc'.imports) :
          IF i <= Len(dbc.imports)
          THEN /\ dbc'.imports[i].status \in {"PROCESSING", "SUCCESS", "FAIL"}
               /\ dbc.imports[i].status # "PROCESSING"
                  => dbc'.imports[i].status = dbc.imports[i].status
          ELSE dbc'.imports[i].status = "PROCESSING"]_vars

(***************************************************************************)
(* The worker with one inpatient and one outpatient file delivered: the    *)
(* two batches of a cycle import the same patients.                        *)
(***************************************************************************)
InitMixed ==
    /\ \E a \in [kind : {"INPATIENT"}, sheet : LiveInSheets,
                 dir : {"watched"}, marker : {"watched", "none"}],
          b \in [kind : {"OUTPATIENT"}, sheet : LiveOutSheets,
                 dir : {"watched"}, marker : {"watched", "none"}] :
          files = [f \in FileIds |-> IF f = 1 THEN a ELSE b]
    /\ InitPipe

SpecMixed == InitMixed /\ [][NextWorker]_vars

\* C16: the connection's view and the committed database hold at most one
\* non-deleted Patient for each emrPatientId.
C16_OneLivePatientPerEmrId ==
    \A d \in {db, dbc} :
        \A i, j \in 1..Len(d.patients) :
            (/\ ~d.patients[i].deleted
             /\ ~d.patients[j].deleted
             /\ d.patients[i].emrPatientId = d.patients[j].emrPatientId)
            => i = j

\* P1 was written by an inpatient import and met again by an outpatient
\* import that created an appointment for it (or the other way round)
C16_Witness ==
    /\ LivePatients(dbc.patients, "P1") # {}
    /\ \E i, j \in 1..Len(dbc.imports) :
          /\ dbc.imports[i].fileType = "INPATIENT"
          /\ dbc.imports[i].stats.created + dbc.imports[i].stats.conflicts >= 1
          /\ dbc.imports[j].fileType = "OUTPATIENT"
          /\ dbc.imports[j].stats.created >= 1
    /\ \E k \in 1..Len(dbc.appts) :
          dbc.appts[k].patientId \in LivePatients(dbc.patients, "P1")

(***************************************************************************)
(* parse_outpatient_file applied to a sheet of one appointment row, for    *)
(* every start time of the day, with and without an end time.              *)
(***************************************************************************)
TimesOfDay == {<<h, m>> : h \in 0..23, m \in 0..59}

InitSynth ==
    /\ pKind = "OUTPATIENT"
    /\ \E start \in TimesOfDay, end \in {<<>>, <<10, 0>>} :
          pSheet = [opens |-> TRUE, top |-> <<OutPipeHeader>>,
                    data |-> <<OutRaw("P1", "Kim", start, end, "DrA", "A1", "")>>]
    /\ pOut = <<>>
    /\ pPc = "call"
    /\ ValidateOff /\ PipeOff /\ CallOff

SpecSynth == InitSynth /\ [][CallParseOutpatient]_vars

\* C17: a row with a start time and no end time is returned with the end
\* time start + 30 minutes, which is a time of day (hour 0-23, minute 0-59).
C17_SynthesizedEnd_IsValidStartPlus30 ==
    (/\ pPc = "done"
     /\ pSheet.data[1].startTime # <<>>
     /\ pSheet.data[1].endTime = <<>>)
    => LET start == pSheet.data[1].startTime
           end == pOut[1].rows[1].endTime
       IN  /\ end \in TimesOfDay
           /\ 60 * end[1] + end[2] = (60 * start[1] + start[2] + 30) % 1440

(***************************************************************************)
(* is_file_ready called in each receipt mode on a path with or without a   *)
(* file of at most MaxSize bytes and with or without a receipt marker.     *)
(***************************************************************************)
MaxSize == 2

ReceiptModes == {"done_signal", "stable_size", "eof_marker"}

Stats == {<<>>} \cup {<<n>> : n \in 0..MaxSize}

InitReady ==
    /\ cArgs \in [mode : ReceiptModes,
                  at : [file : Stats, later : Stats, marker : BOOLEAN]]
    /\ cRet = <<>>
    /\ cPc = "call"
    /\ ValidateOff /\ ParseOff /\ PipeOff

CallIsFileReady ==
    /\ cPc = "call"
    /\ cRet' = <<is_file_ready_at(cArgs.mode, cArgs.at)>>
    /\ cPc' = "done"
    /\ UNCHANGED <<cArgs, valVars, parseVars, pipeVars>>

SpecReady == InitReady /\ [][CallIsFileReady]_vars

\* C18: in every receipt mode, is_file_ready on a path where no file exists
\* returns false, raising nothing.
C18_MissingFile_ReturnsFalse ==
    (/\ cPc = "done"
     /\ cArgs.at.file = <<>>
     /\ cArgs.at.later = <<>>)
    => cRet = <<"False">>

(***************************************************************************)
(* The trace of the rows an outpatient import drops.                       *)
(***************************************************************************)
\* the row at hand was found with its stored values equal to the file's
RowUnchanged ==
    /\ fr.sel # <<>>
    /\ fr.sel[1].doctorId # 0
    /\ fr.sel[1].existing # 0
    /\ ~Changed(fr.sel[1].old[1], fr.valid[fr.idx], fr.sel[1].doctorId)

ErrorsOfRow(d, importId, rowNumber) ==
    {e \in 1..Len(d.importErrors) :
        /\ d.importErrors[e].importId = importId
        /\ d.importErrors[e].rowNumber = rowNumber}

\* C19: a parsed row that upsert_appointments counts as skipped without
\* having found it unchanged has exactly one ImportError of the file's
\* Import with its row number.
C19_DroppedRow_HasImportError ==
    [][(/\ pc = "upsert"
        /\ KindOf(CurFile) = "OUTPATIENT"
        /\ pc' = "upsert"
        /\ fr'.stats.skipped = fr.stats.skipped + 1
        /\ ~RowUnchanged)
       => Cardinality(ErrorsOfRow(db', fr.importId, fr.valid[fr.idx].row)) = 1]_vars

(***************************************************************************)
(* The scheduler loop of main, on the worker that keeps running and whose  *)
(* filesystem may refuse a move.                                           *)
(***************************************************************************)
SpecFsFaultLive ==
    InitLive /\ [][NextFsFault]_vars /\ WF_vars(WorkerProgress) /\ ParseReturns

\* a row's statement has failed, or an exception is at the file's handler
Failing == pc = "except" \/ (pc = "upsert" /\ txn = "aborted")

\* C20: after a failure in a row or a file the worker is still in its loop:
\* the step after the handler takes the next file of the batch or ends the
\* batch run, every file still listed becomes the current file, the batch
\* run ends, and the next batch run is started.
C20_Failure_LoopGoesOn ==
    /\ [][pc = "except" => pc' \in {"file", "idle"}]_vars
    /\ \A f \in FileIds :
          (Failing /\ InQueue(f) /\ CurFile # f) ~> (pc = "file" /\ CurFile = f)
    /\ Failing ~> (pc = "idle")
    /\ \A n \in 0..(MaxCycles - 1) : (Failing /\ cycles = n) ~> (cycles = n + 1)

\* a batch run whose first file failed imported its second file, and all
\* batch runs were started
C20_Witness ==
    /\ pc = "idle"
    /\ cycles = MaxCycles
    /\ \E i, j \in 1..Len(dbc.imports) :
          /\ i < j
          /\ dbc.imports[i].status \in {"FAIL", "PROCESSING"}
          /\ dbc.imports[j].status = "SUCCESS"
          /\ dbc.imports[j].stats.created >= 1

(***************************************************************************)
(* The two batches of one run as functions on the database: the loops of   *)
(* upsert_patients and upsert_appointments over the valid rows of a file   *)
(* that is ready and new, with their commit.                               *)
(***************************************************************************)
RECURSIVE UpsertPatientsFrom(_, _, _, _)
UpsertPatientsFrom(d, valid, importId, k) ==
    IF k > Len(valid) THEN d
    ELSE UpsertPatientsFrom(UpsertPatient(d, valid[k], importId).db, valid,
                            importId, k + 1)

upsert_patients(d, valid, importId) == UpsertPatientsFrom(d, valid, importId, 1)

\* ok is FALSE once a statement has raised: the rows after it are skipped
RECURSIVE UpsertApptsFrom(_, _, _, _)
UpsertApptsFrom(d, valid, k, ok) ==
    IF k > Len(valid) THEN [db |-> d, ok |-> ok]
    ELSE IF ~ok THEN UpsertApptsFrom(d, valid, k + 1, ok)
    ELSE LET r == SelectForRow(d, valid[k])
             w == WriteForRow(r.db, valid[k], r.sel)
         IN  UpsertApptsFrom(w.db, valid, k + 1, ~w.raised)

\* conn.commit() keeps the writes of an intact transaction only
upsert_appointments(d, valid) ==
    LET r == UpsertApptsFrom(d, valid, 1, TRUE)
    IN  IF r.ok THEN r.db ELSE d

\* run_inpatient_batch on one delivered sheet: the clinical tables after it
InpatientBatch(d, sheet) ==
    IF ~validate_xlsx([dir |-> "watched", sheet |-> sheet]) THEN d
    ELSE LET p == parse_inpatient_file(sheet)
         IN  IF p.raise # "" \/ p.rows = <<>> THEN d
             ELSE upsert_patients(d, validate_rows(p.rows).valid, "inpatientImport")

\* run_outpatient_batch on one delivered sheet
OutpatientBatch(d, sheet) ==
    IF ~validate_xlsx([dir |-> "watched", sheet |-> sheet]) THEN d
    ELSE LET p == parse_outpatient_file(sheet)
         IN  IF p.rows = <<>> THEN d
             ELSE upsert_appointments(d, Partition("OUTPATIENT", p.rows).valid)

\* the Patient, PatientIdentityConflict and Appointment rows of d, with the
\* generated keys replaced by what they refer to
Clinical(d) ==
    [patients  |-> {d.patients[i] : i \in 1..Len(d.patients)},
     conflicts |-> {d.conflicts[i] : i \in 1..Len(d.conflicts)},
     appts     |-> {[d.appts[i] EXCEPT
                        !.patientId = d.patients[d.appts[i].patientId].emrPatientId,
                        !.doctorId = d.doctors[d.appts[i].doctorId].name]
                    : i \in 1..Len(d.appts)},
     counts    |-> <<Len(d.patients), Len(d.conflicts), Len(d.appts)>>]

InitOrder ==
    /\ cArgs \in [inSheet : InPipeSheets, outSheet : OutPipeSheets]
    /\ cRet = <<>>
    /\ cPc = "call"
    /\ ValidateOff /\ ParseOff /\ PipeOff

\* one run of main's two jobs on an empty database, in the order they are
\* registered and in the other order
CallBothOrders ==
    /\ cPc = "call"
    /\ cRet' = <<Clinical(OutpatientBatch(InpatientBatch(EmptyDb, cArgs.inSheet),
                                          cArgs.outSheet)),
                 Clinical(InpatientBatch(OutpatientBatch(EmptyDb, cArgs.outSheet),
                                         cArgs.inSheet))>>
    /\ cPc' = "done"
    /\ UNCHANGED <<cArgs, valVars, parseVars, pipeVars>>

SpecOrder == InitOrder /\ [][CallBothOrders]_vars

\* C21: the Patient, PatientIdentityConflict and Appointment rows after a
\* run are the same whether the inpatient batch runs before or after the
\* outpatient batch.
C21_BatchOrder_SameResult ==
    cPc = "done" => cRet[1] = cRet[2]

(***************************************************************************)
(* A row that meets its appointment again.                                 *)
(***************************************************************************)
\* the appointment's stored instants, doctor and status are the row's
StoredEqualsRow(appt, row, doctorId) ==
    /\ appt.startAt = PgTimestamp(IsoText(row.appointmentDate, row.startTime))
    /\ appt.endAt = PgTimestamp(IsoText(row.appointmentDate, row.endTime))
    /\ appt.doctorId = doctorId
    /\ appt.status = row.status

\* the row at hand was matched to an appointment by its emrAppointmentId
RowMatched ==
    /\ pc = "upsert"
    /\ KindOf(CurFile) = "OUTPATIENT"
    /\ fr.sel # <<>>
    /\ fr.sel[1].doctorId # 0
    /\ fr.sel[1].existing # 0

\* C22: a row matched to an appointment whose stored start, end, doctor and
\* status equal the row's leaves every appointment as it is and is counted
\* as skipped.
C22_UnchangedRow_IsNoOp ==
    [][(/\ RowMatched
        /\ StoredEqualsRow(db.appts[fr.sel[1].existing], fr.valid[fr.idx],
                           fr.sel[1].doctorId))
       => /\ db'.appts = db.appts
          /\ fr'.stats.skipped = fr.stats.skipped + 1]_vars

(***************************************************************************)
(* The overwrite of an appointment that came from the EMR.                 *)
(***************************************************************************)
\* row k is the only valid row of the file at hand with its emrAppointmentId
OnlyRowOfItsAppt(k) ==
    \A j \in 1..Len(fr.valid) :
        fr.valid[j].emrAppointmentId = fr.valid[k].emrAppointmentId => j = k

\* the doctor the row names, as the committed database d knows it (0: none)
DoctorOfRow(d, row) ==
    LET byName == LiveDoctorsByName(d.doctors, row.doctorName)
    IN  IF byName = {} THEN 0 ELSE FirstOf(byName)

\* C23: when the loop over an outpatient file's valid rows is over, an
\* appointment that was stored with source EMR and is matched by a row of
\* the file that differs from it holds the row's start, end, doctor, room, status and notes, has
\* source EMR and a version one higher, and is still the only live
\* appointment with its emrAppointmentId.
C23_EmrAppointment_Overwritten ==
    [][(/\ pc = "upsert"
        /\ KindOf(CurFile) = "OUTPATIENT"
        /\ pc' # "upsert")
       => \A k \in 1..Len(fr.valid) :
             LET row == fr.valid[k]
                 live == LiveAppts(dbc.appts, row.emrAppointmentId)
             IN  (/\ WritableRow(row)
                  /\ OnlyRowOfItsAppt(k)
                  /\ live # {}
                  /\ dbc.appts[FirstOf(live)].source = "EMR"
                  /\ ~StoredEqualsRow(dbc.appts[FirstOf(live)], row,
                                      DoctorOfRow(dbc, row)))
                 => LET old == dbc.appts[FirstOf(live)]
                        new == dbc'.appts[FirstOf(live)]
                    IN  /\ new.startAt = PgTimestamp(IsoText(row.appointmentDate, row.startTime))
                        /\ new.endAt = PgTimestamp(IsoText(row.appointmentDate, row.endTime))
                        /\ new.doctorId = DoctorOfRow(dbc', row)
                        /\ new.clinicRoomId = find_clinic_room(row.clinicRoomName)
                        /\ new.status = row.status
                        /\ new.notes = row.notes
                        /\ new.source = "EMR"
                        /\ new.version = old.version + 1
                        /\ LiveAppts(dbc'.appts, row.emrAppointmentId) = live]_vars

(***************************************************************************)
(* One commit for an inpatient file.  upsert_patients has no try of its    *)
(* own and commits once, after the loop.  A statement can also raise       *)
(* before anything is sent: psycopg2 adapts the parameters on the client   *)
(* (a text with a NUL character raises ValueError), and old_dob.strftime   *)
(* and the json.dumps of the conflict run between the statements.  The     *)
(* transaction is then intact and holds the writes of the earlier rows.    *)
(***************************************************************************)
UpsertPatientRowRaisesUnsent ==
    /\ pc = "upsert"
    /\ KindOf(CurFile) = "INPATIENT"
    /\ fr.idx <= Len(fr.valid)
    /\ txn = "ok"
    /\ faults < MaxFaults
    /\ faults' = faults + 1
    /\ fr' = [fr EXCEPT !.exc = "valueError"]
    /\ pc' = "except"
    /\ UNCHANGED <<valVars, parseVars, callVars, files, db, dbc, txn, queue, cycles>>

AtomicInSheets ==
    { [opens |-> TRUE, top |-> <<InFullHeader>>,
       data |-> <<InRaw("P1", "Kim", <<Now.day - 10000>>, "M", ""),
                  InRaw("P2", "Lee", <<Now.day - 9000>>, "F", "")>>],
      [opens |-> TRUE, top |-> <<InFullHeader>>,
       data |-> <<InRaw("P1", "Kim", <<Now.day - 10000>>, "M", "010-1234"),
                  InRaw("P2", "Lee", <<Now.day - 9000>>, "F", "")>>],
      [opens |-> TRUE, top |-> <<InFullHeader>>,
       data |-> <<InRaw("P1", "Park", <<Now.day - 10000>>, "M", ""),
                  InRaw("P2", "Lee", <<Now.day - 9000>>, "F", "")>>],
      [opens |-> TRUE, top |-> <<InFullHeader>>,
       data |-> <<InRaw("P1", "Kim", <<Now.day - 10000>>, "M", "-"),
                  InRaw("P2", "Lee", <<Now.day - 9000>>, "F", "010-1234")>>] }

InitAtomic ==
    /\ files \in FilesOf("INPATIENT", AtomicInSheets)
    /\ InitPipe

NextAtomic ==
    \/ StartBatch("INPATIENT")
    \/ StartBatch("OUTPATIENT")
    \/ SkipNotReady
    \/ ArchiveDuplicate
    \/ CreateImport
    \/ ParseRows
    \/ UpsertPatientRow
    \/ UpsertPatientRowRaises
    \/ UpsertPatientRowRaisesUnsent
    \/ FinishFile
    \/ HandleException
    \/ \E f \in FileIds : MarkerArrives(f)

SpecAtomic == InitAtomic /\ [][NextAtomic]_vars

\* upsert_patients raised at a row of the file being processed
PatientUpsertRaised ==
    /\ pc = "except"
    /\ KindOf(CurFile) = "INPATIENT"
    /\ fr.idx >= 1

\* C24: the Patient and PatientIdentityConflict writes of an inpatient file
\* are committed together and only by the commit that ends upsert_patients:
\* nothing of them is committed while the rows are processed, and when
\* upsert_patients raised part-way, the handler (the Import status update on
\* the same connection included) commits none of them and leaves none pending.
C24_InpatientUpserts_CommitAtomically ==
    [][/\ (pc = "upsert" /\ KindOf(CurFile) = "INPATIENT" /\ pc' # "idle" /\ pc' # "file")
            => (dbc'.patients = dbc.patients /\ dbc'.conflicts = dbc.conflicts)
       /\ PatientUpsertRaised
            => /\ dbc'.patients = dbc.patients
               /\ dbc'.conflicts = dbc.conflicts
               /\ db'.patients = dbc.patients
               /\ db'.conflicts = dbc.conflicts]_vars

(***************************************************************************)
(* The phone of a matched patient (inpatient_importer.py lines 80-89).     *)
(***************************************************************************)
\* the row the next iteration of upsert_patients handles matches a stored
\* patient on name, dob and sex
PhoneRowMatched ==
    /\ pc = "upsert"
    /\ KindOf(CurFile) = "INPATIENT"
    /\ fr.idx <= Len(fr.valid)
    /\ LivePatients(db.patients, fr.valid[fr.idx].id) # {}
    /\ ~identity_changed(db.patients[FirstOf(LivePatients(db.patients, fr.valid[fr.idx].id))],
                         fr.valid[fr.idx])

NoPhone == {"None", ""}

\* C25: the iteration of a row that matches a stored patient on name, dob
\* and sex changes nothing but that patient's phone; the phone changes only
\* to the row's phone, when that is non-empty and differs from the stored
\* one, and a stored phone is never replaced by an empty one; in every other
\* case the database is unchanged and the row is counted as skipped.
C25_PhoneOnly_NeverBlanked ==
    [][(PhoneRowMatched /\ fr'.idx = fr.idx + 1) =>
        LET row == fr.valid[fr.idx]
            pid == FirstOf(LivePatients(db.patients, row.id))
            old == db.patients[pid]
        IN  /\ db' = [db EXCEPT !.patients[pid].phone = db'.patients[pid].phone]
            /\ IF db'.patients[pid].phone # old.phone
               THEN /\ row.phone \notin NoPhone
                    /\ db'.patients[pid].phone = row.phone
                    /\ fr'.stats = Count(fr.stats, "updated")
               ELSE /\ db' = db
                    /\ fr'.stats = Count(fr.stats, "skipped")
            /\ old.phone \notin NoPhone => db'.patients[pid].phone \notin NoPhone]_vars

(***************************************************************************)
(* Where a handled file ends (worker.py lines 65-87, 118-183, 209-274).    *)
(***************************************************************************)
\* process_*_file ends for the current file, which passed the receipt check
HandledFileEnds ==
    /\ pc \in {"file", "parse", "upsert", "except"}
    /\ is_file_ready(files[CurFile])
    /\ queue' = Tail(queue)

\* C26: when process_inpatient_file or process_outpatient_file ends for a
\* file that passed the receipt check, the file has left the watched folder:
\* it is in the archive folder with its receipt marker deleted, or in the
\* error folder together with its receipt marker.
C26_HandledFile_LeavesWatched ==
    [][HandledFileEnds =>
        \/ /\ files'[CurFile].dir = "archive"
           /\ files'[CurFile].marker = "none"
        \/ /\ files'[CurFile].dir = "error"
           /\ files'[CurFile].marker = "error"]_vars

(***************************************************************************)
(* A file without data rows (worker.py lines 149-152 and 240-243).         *)
(***************************************************************************)
\* the Imports recorded with the no-data note
NoDataImports == {i \in 1..Len(dbc.imports) : dbc.imports[i].stats.note = "noData"}

\* C27: when the parser returns no rows for a file that passed the receipt,
\* integrity and duplicate checks, that step commits SUCCESS with the
\* no-data note on the file's Import, writes no Patient, Appointment,
\* ImportError, conflict or Doctor row, and moves the file to the archive;
\* an Import with the no-data note stays SUCCESS.
C27_EmptyParse_SuccessAndArchived ==
    /\ [][(/\ pc = "parse"
           /\ ParseResult(CurFile).raise = ""
           /\ ParseResult(CurFile).rows = <<>>)
          => /\ pc' # "parse"
             /\ dbc'.imports[fr.importId].status = "SUCCESS"
             /\ dbc'.imports[fr.importId].stats.note = "noData"
             /\ dbc' = [dbc EXCEPT !.imports[fr.importId] = dbc'.imports[fr.importId]]
             /\ db' = dbc'
             /\ files'[CurFile].dir = "archive"
             /\ files'[CurFile].marker = "none"]_vars
    /\ [](\A i \in NoDataImports : dbc.imports[i].status = "SUCCESS")

C27_Witness ==
    \E i \in NoDataImports :
        /\ dbc.imports[i].status = "SUCCESS"
        /\ files[dbc.imports[i].filePath].dir = "archive"
        /\ dbc.patients = <<>>
        /\ dbc.appts = <<>>
        /\ dbc.importErrors = <<>>

(***************************************************************************)
(* validate_rows as a partition (data_validator.py lines 12-82).           *)
(***************************************************************************)
\* the ids of the parser-clean rows before row i
SeenBefore(i) == {vRows[k].id : k \in {m \in 1..(i - 1) : NoParserError(m)}}

\* row i carries no parser error, repeats no id and breaks no business rule
PassesAll(i) ==
    /\ NoParserError(i)
    /\ vRows[i].id \notin SeenBefore(i)
    /\ BusinessErrors(vRows[i]) = <<>>

\* the positions in vRows of the rows of each list, in list order
ValidPositions(out) == [k \in 1..Len(out.valid) |-> out.valid[k].n - 1]

ErrorPositions(out) == [k \in 1..Len(out.errors) |-> out.errors[k].rowNumber - 1]

Increasing(s) == \A j, k \in 1..Len(s) : j < k => s[j] < s[k]

\* C28: validate_rows splits its rows into the valid list and the error
\* list: every row is in exactly one of them, each list keeps the rows'
\* relative order, a row is valid exactly when it has no parser error, does
\* not repeat an id and breaks no business rule, and the valid rows have
\* pairwise distinct ids, sex M or F and no planned discharge before the
\* admission.
C28_ValidateRows_OrderPreservingPartition ==
    vPc = "done" =>
        LET out == vOut[1]
            vp == ValidPositions(out)
            ep == ErrorPositions(out)
        IN  /\ Len(out.valid) + Len(out.errors) = Len(vRows)
            /\ Increasing(vp) /\ Increasing(ep)
            /\ \A k \in 1..Len(vp) : vp[k] \in 1..Len(vRows) /\ out.valid[k] = vRows[vp[k]]
            /\ \A k \in 1..Len(ep) : /\ ep[k] \in 1..Len(vRows)
                                     /\ out.errors[k].raw = vRows[ep[k]]
                                     /\ out.errors[k].errors # <<>>
            /\ \A i \in 1..Len(vRows) :
                 /\ (\E k \in 1..Len(vp) : vp[k] = i) # (\E k \in 1..Len(ep) : ep[k] = i)
                 /\ (\E k \in 1..Len(vp) : vp[k] = i) <=> PassesAll(i)
            /\ \A j, k \in 1..Len(out.valid) : j # k => out.valid[j].id # out.valid[k].id
            /\ \A k \in 1..Len(out.valid) :
                 /\ out.valid[k].sex \in {"M", "F"}
                 /\ (out.valid[k].planned # <<>> /\ out.valid[k].admit # <<>>)
                        => out.valid[k].planned[1] >= out.valid[k].admit[1]

C28_Witness ==
    /\ vPc = "done"
    /\ Len(vRows) = 3
    /\ Len(vOut[1].valid) = 1
    /\ Len(vOut[1].errors) = 2
    /\ vOut[1].valid[1] = vRows[2]
    /\ vRows[1].planned # <<>>
    /\ vRows[3].id = vRows[2].id

(***************************************************************************)
(* The doctor of an appointment row (outpatient_importer.py lines 53-83    *)
(* and 124-129).                                                           *)
(***************************************************************************)
\* the step is the part of a valid row that resolves its patient and doctor
ResolvesDoctor ==
    /\ pc = "upsert"
    /\ KindOf(CurFile) = "OUTPATIENT"
    /\ fr.idx <= Len(fr.valid)
    /\ fr.sel = <<>>
    /\ fr'.sel # <<>>

\* C29: every valid row obtains a doctor: the live Doctor with the row's
\* emrDoctorId when there is one, else the live Doctor with the row's name
\* when there is one, else a Doctor created for the row, so no row is
\* skipped for lack of a doctor; and a row whose doctor name matches a live
\* Doctor creates no Doctor.
C29_EveryValidRow_ObtainsDoctor ==
    [][ResolvesDoctor =>
        LET row == fr.valid[fr.idx]
            byId == LiveDoctorsById(db.doctors, row.emrDoctorId)
            byName == LiveDoctorsByName(db.doctors, row.doctorName)
            got == fr'.sel[1].doctorId
        IN  /\ got \in 1..Len(db'.doctors)
            /\ IF row.emrDoctorId # "" /\ byId # {}
               THEN got \in byId /\ db'.doctors = db.doctors
               ELSE IF byName # {}
               THEN got \in byName /\ db'.doctors = db.doctors
               ELSE /\ got = Len(db.doctors) + 1
                    /\ Len(db'.doctors) = Len(db.doctors) + 1
                    /\ db'.doctors[got].name = row.doctorName
            /\ byName # {} => db'.doctors = db.doctors]_vars

(***************************************************************************)
(* health_check.py.  An Import of the table is seen as                     *)
(*   status, fileType                                                      *)
(*   createdAgo    hours from createdAt to the check                       *)
(*   finishedAgo   <<hours from finishedAt to the check>>, <<>> when NULL  *)
(* update_import_status sets finishedAt with every status it writes; the   *)
(* Imports of the model are finished within the hour they were created.    *)
(***************************************************************************)
MaxImports == 2

MAX_BATCH_GAP_HOURS == 5

FailWindowHours == 24

HoursAgo == {1, 5, 6, 30}

ImportViews ==
    [status : {"SUCCESS", "FAIL"}, fileType : {"INPATIENT", "OUTPATIENT"},
     createdAgo : HoursAgo, finishedAgo : {<<h>> : h \in HoursAgo}]
    \cup [status : {"PROCESSING"}, fileType : {"INPATIENT", "OUTPATIENT"},
          createdAgo : HoursAgo, finishedAgo : {<<>>}]

RecordedImports ==
    {i \in ImportViews : i.finishedAgo = <<>> \/ i.finishedAgo = <<i.createdAgo>>}

\* send_alert: the request posted to the webhook; without a configured URL
\* the alert is only written to the log, and a request that raises is
\* logged and dropped
send_alert(hook, title) ==
    IF hook.url = "" \/ ~hook.postOk THEN [alerts |-> <<title>>, posted |-> <<>>]
    ELSE [alerts |-> <<title>>, posted |-> <<title>>]

NoAlert == [alerts |-> <<>>, posted |-> <<>>]

Both(a, b) == [alerts |-> a.alerts \o b.alerts, posted |-> a.posted \o b.posted]

\* SELECT MAX("finishedAt") ... WHERE status = 'SUCCESS' AND fileType =
\* 'INPATIENT': <<hours ago>> of the latest, <<>> for NULL
LastSuccess(imports) ==
    LET S == {imports[k].finishedAgo[1] :
                k \in {m \in 1..Len(imports) :
                         /\ imports[m].status = "SUCCESS"
                         /\ imports[m].fileType = "INPATIENT"
                         /\ imports[m].finishedAgo # <<>>}}
    IN  IF S = {} THEN <<>> ELSE <<CHOOSE h \in S : \A g \in S : h <= g>>

\* SELECT COUNT(*) ... WHERE status = 'FAIL' AND createdAt > NOW() - 24 hours
FailCount(imports) ==
    Cardinality({k \in 1..Len(imports) :
                   imports[k].status = "FAIL" /\ imports[k].createdAgo < FailWindowHours})

\* check_batch_health: the alerts it raised, in order
check_batch_health(imports, hook, dbUp) ==
    IF ~dbUp THEN send_alert(hook, "healthCheckError")
    ELSE LET last == LastSuccess(imports)
             gapAlert == IF last = <<>> THEN NoAlert
                         ELSE IF last[1] > MAX_BATCH_GAP_HOURS
                         THEN send_alert(hook, "batchNotRun")
                         ELSE NoAlert
             failAlert == IF FailCount(imports) > 0
                          THEN send_alert(hook, "batchFailures")
                          ELSE NoAlert
         IN  Both(gapAlert, failAlert)

InitHealth ==
    /\ cArgs \in [imports : SeqsUpTo(RecordedImports, MaxImports),
                  hook : [url : {"", "webhook"}, postOk : BOOLEAN], dbUp : BOOLEAN]
    /\ cRet = <<>>
    /\ cPc = "call"
    /\ ValidateOff /\ ParseOff /\ PipeOff

CallCheckBatchHealth ==
    /\ cPc = "call"
    /\ cRet' = <<check_batch_health(cArgs.imports, cArgs.hook, cArgs.dbUp)>>
    /\ cPc' = "done"
    /\ UNCHANGED <<cArgs, valVars, parseVars, pipeVars>>

SpecHealth == InitHealth /\ [][CallCheckBatchHealth]_vars

\* no Import reached SUCCESS within the maximum gap before the check
NoSuccessWithinGap(imports) ==
    \A k \in 1..Len(imports) :
        imports[k].status = "SUCCESS" =>
            (imports[k].finishedAgo = <<>> \/ imports[k].finishedAgo[1] > MAX_BATCH_GAP_HOURS)

RecentFails(imports) ==
    \E k \in 1..Len(imports) :
        imports[k].status = "FAIL" /\ imports[k].createdAgo < FailWindowHours

\* C30: a health check that finds no Import with SUCCESS within the maximum
\* gap (none at all included), or a FAIL Import in the recent window, raises
\* an alert.
C30_HealthCheck_Alerts ==
    (/\ cPc = "done"
     /\ NoSuccessWithinGap(cArgs.imports) \/ RecentFails(cArgs.imports))
    => cRet[1].alerts # <<>>

(***************************************************************************)
(* The Import of a file when process_*_file returns (worker.py 142-182,    *)
(* 233-274).                                                               *)
(***************************************************************************)
\* process_*_file ends for a file whose Import record it created
CallWithImportEnds ==
    /\ pc \in {"parse", "upsert", "except"}
    /\ fr.importId # 0
    /\ queue' = Tail(queue)

\* C31: when process_inpatient_file or process_outpatient_file ends for a
\* file whose Import it created, normally or by an exception caught in it or
\* in the batch loop, the committed status of that Import is SUCCESS or FAIL.
C31_ReturnedCall_ImportNotProcessing ==
    [][CallWithImportEnds =>
        dbc'.imports[fr.importId].status \in {"SUCCESS", "FAIL"}]_vars

(***************************************************************************)
(* Two instances of the worker (the daemon and a --run-now run) on the     *)
(* same database, each with its own connection (worker.py lines 133-143).  *)
(* cArgs[w] is the fingerprint of the file instance w is processing,       *)
(* cPc[w] its position, cRet[w] the Import it created (0: none).  Each     *)
(* statement sees what is committed (READ COMMITTED), and                  *)
(* create_import_record commits at once.                                   *)
(***************************************************************************)
MaxInstances == 2

\* the Imports the two instances create in a run of the model
MaxLedger == 2

Instances == 1..MaxInstances

Fingerprints == {"h1", "h2"}

InitTwoWorkers ==
    /\ cArgs \in [Instances -> Fingerprints]
    /\ cRet = [w \in Instances |-> 0]
    /\ cPc = [w \in Instances |-> "check"]
    /\ dbc = EmptyDb
    /\ db = EmptyDb
    /\ files = <<>> /\ txn = "ok" /\ pc = "off"
    /\ queue = <<>> /\ fr = <<>> /\ cycles = 0 /\ faults = 0
    /\ ValidateOff /\ ParseOff

\* 3. check_duplicate answers that the fingerprint is known: the file is
\* archived and the call returns
InstanceFindsDuplicate(w) ==
    /\ cPc[w] = "check"
    /\ check_duplicate(cArgs[w], dbc)
    /\ cPc' = [cPc EXCEPT ![w] = "returned"]
    /\ UNCHANGED <<cArgs, cRet, valVars, parseVars, pipeVars>>

\* 3. check_duplicate answers that the fingerprint is new
InstanceFindsNew(w) ==
    /\ cPc[w] = "check"
    /\ ~check_duplicate(cArgs[w], dbc)
    /\ cPc' = [cPc EXCEPT ![w] = "create"]
    /\ UNCHANGED <<cArgs, cRet, valVars, parseVars, pipeVars>>

\* 4. create_import_record: INSERT and commit
InstanceCreatesImport(w) ==
    /\ cPc[w] = "create"
    /\ dbc' = InsertImport(dbc, w, cArgs[w], "INPATIENT")
    /\ db' = dbc'
    /\ cRet' = [cRet EXCEPT ![w] = Len(dbc.imports) + 1]
    /\ cPc' = [cPc EXCEPT ![w] = "import"]
    /\ UNCHANGED <<cArgs, valVars, parseVars, files, txn, pc, queue, fr, cycles, faults>>

\* 5-10. the rows are parsed and upserted, and the final status is committed
InstanceFinishes(w) ==
    /\ cPc[w] = "import"
    /\ dbc' = UpdateImport(dbc, cRet[w], "SUCCESS", ZeroStats)
    /\ db' = dbc'
    /\ cPc' = [cPc EXCEPT ![w] = "returned"]
    /\ UNCHANGED <<cArgs, cRet, valVars, parseVars, files, txn, pc, queue, fr, cycles, faults>>

\* the instance takes the next file of its folder
InstanceNextFile(w, h) ==
    /\ cPc[w] = "returned"
    /\ Len(dbc.imports) < MaxLedger
    /\ cArgs' = [cArgs EXCEPT ![w] = h]
    /\ cRet' = [cRet EXCEPT ![w] = 0]
    /\ cPc' = [cPc EXCEPT ![w] = "check"]
    /\ UNCHANGED <<valVars, parseVars, pipeVars>>

NextTwoWorkers ==
    \/ \E w \in Instances : InstanceFindsDuplicate(w)
    \/ \E w \in Instances : InstanceFindsNew(w)
    \/ \E w \in Instances : InstanceCreatesImport(w)
    \/ \E w \in Instances : InstanceFinishes(w)
    \/ \E w \in Instances : \E h \in Fingerprints : InstanceNextFile(w, h)

SpecTwoWorkers == InitTwoWorkers /\ [][NextTwoWorkers]_vars

\* C32: with two instances of the worker running at once, at most one
\* Import that is PROCESSING or SUCCESS exists for a fingerprint: the
\* duplicate check and the insert never both pass in both instances.
C32_OneImportPerFingerprint ==
    \A h \in Fingerprints :
        Cardinality({i \in 1..Len(dbc.imports) :
                       /\ dbc.imports[i].fileHash = h
                       /\ dbc.imports[i].status \in BlockingStatuses}) <= 1

(***************************************************************************)
(* The identity fields of a stored patient (inpatient_importer.py 51-89,   *)
(* outpatient_importer.py 32-50).                                          *)
(***************************************************************************)
StubDob == <<0 - 25567>>

Identity(p) == <<p.emrPatientId, p.name, p.dob, p.sex>>

\* the patients of d are those of e, with the same identity, and maybe more
KeepsIdentities(e, d) ==
    /\ Len(d.patients) >= Len(e.patients)
    /\ \A i \in 1..Len(e.patients) : Identity(d.patients[i]) = Identity(e.patients[i])

\* the next iteration of upsert_patients meets a stored patient whose name,
\* dob or sex differs from the row's
MismatchRow ==
    /\ pc = "upsert"
    /\ KindOf(CurFile) = "INPATIENT"
    /\ fr.idx <= Len(fr.valid)
    /\ LivePatients(db.patients, fr.valid[fr.idx].id) # {}
    /\ identity_changed(db.patients[FirstOf(LivePatients(db.patients, fr.valid[fr.idx].id))],
                        fr.valid[fr.idx])

\* C33: no step of an inpatient or outpatient import changes the name, dob
\* or sex of a stored Patient, in the committed database or in the
\* connection's view of it; an inpatient row that differs from the stored
\* patient (a stub with the placeholder dob and sex included) leaves the
\* patient as it is and records an OPEN PatientIdentityConflict holding the
\* stored and the row's identity.
C33_IdentityFields_WriteOnce ==
    [][/\ KeepsIdentities(dbc, dbc')
       /\ KeepsIdentities(dbc, db')
       /\ (pc = "upsert" /\ pc' = "upsert") => KeepsIdentities(db, db')
       /\ (MismatchRow /\ fr'.idx = fr.idx + 1) =>
            LET row == fr.valid[fr.idx]
                old == db.patients[FirstOf(LivePatients(db.patients, row.id))]
                n == Len(db.conflicts) + 1
            IN  /\ db'.patients = db.patients
                /\ Len(db'.conflicts) = n
                /\ db'.conflicts[n].status = "OPEN"
                /\ db'.conflicts[n].emrPatientId = row.id
                /\ db'.conflicts[n].before = [name |-> old.name, dob |-> DateStr(old.dob),
                                              sex |-> old.sex]
                /\ db'.conflicts[n].after = [name |-> row.name, dob |-> DateStr(row.dob),
                                             sex |-> row.sex]]_vars

\* a stub created by the outpatient importer met an inpatient row with the
\* real dob: the conflict is committed and the stub keeps its placeholders
C33_Witness ==
    \E i \in 1..Len(dbc.patients) : \E k \in 1..Len(dbc.conflicts) :
        /\ dbc.patients[i].dob = StubDob
        /\ dbc.patients[i].sex = "M"
        /\ dbc.conflicts[k].emrPatientId = dbc.patients[i].emrPatientId
        /\ dbc.conflicts[k].status = "OPEN"
        /\ dbc.conflicts[k].before.dob = DateStr(StubDob)
        /\ dbc.conflicts[k].after.dob # DateStr(StubDob)

(***************************************************************************)
(* The statistics of an Import (worker.py lines 161-171 and 253-263).      *)
(***************************************************************************)
Outcomes(stats) == stats.created + stats.updated + stats.conflicts + stats.skipped

\* the step is the final status update of a file whose rows were upserted
FinalUpdate ==
    /\ pc = "upsert"
    /\ fr.idx > Len(fr.valid)
    /\ queue' = Tail(queue)

\* C34: the statistics written by the final status update of a file count
\* every row once: created + updated + conflicts + skipped is the number
\* of valid rows, errorRows the number of error rows, and totalRows their
\* sum; every committed Import satisfies totalRows = created + updated +
\* conflicts + skipped + errorRows.
C34_Stats_AccountForEveryRow ==
    /\ [][FinalUpdate =>
            LET stats == dbc'.imports[fr.importId].stats
            IN  /\ Outcomes(stats) = Len(fr.valid)
                /\ stats.errorRows = fr.nErrors
                /\ stats.totalRows = fr.nRows
                /\ stats.totalRows = Outcomes(stats) + stats.errorRows]_vars
    /\ [](\A i \in 1..Len(dbc.imports) :
            dbc.imports[i].stats.totalRows
                = Outcomes(dbc.imports[i].stats) + dbc.imports[i].stats.errorRows)

C34_Witness ==
    /\ \E i \in 1..Len(dbc.imports) :
          /\ dbc.imports[i].stats.totalRows = 2
          /\ dbc.imports[i].stats.errorRows = 1
          /\ Outcomes(dbc.imports[i].stats) = 1
    /\ \E j \in 1..Len(dbc.imports) :
          /\ dbc.imports[j].stats.skipped >= 1
          /\ dbc.imports[j].stats.created >= 1

(***************************************************************************)
(* One appointment per emrAppointmentId (outpatient_importer.py 138-205).  *)
(***************************************************************************)
OneLiveApptPerId(d) ==
    \A i, j \in 1..Len(d.appts) :
        (/\ d.appts[i].emrAppointmentId # ""
         /\ d.appts[i].emrAppointmentId = d.appts[j].emrAppointmentId
         /\ ~d.appts[i].deleted
         /\ ~d.appts[j].deleted)
        => i = j

\* the row the importer is at carries the id of a stored appointment
RowOfStoredAppt ==
    /\ pc = "upsert"
    /\ KindOf(CurFile) = "OUTPATIENT"
    /\ fr.idx <= Len(fr.valid)
    /\ fr.valid[fr.idx].emrAppointmentId # ""
    /\ \E k \in 1..Len(db.appts) :
          /\ db.appts[k].emrAppointmentId = fr.valid[fr.idx].emrAppointmentId
          /\ ~db.appts[k].deleted

\* C35: with the single batch process, the committed database and the
\* connection's view hold at most one non-deleted Appointment for each
\* emrAppointmentId that is not null, and no step of a row whose
\* emrAppointmentId is stored already inserts an Appointment.
C35_OneAppointmentPerEmrId ==
    /\ [](OneLiveApptPerId(db) /\ OneLiveApptPerId(dbc))
    /\ [][RowOfStoredAppt => Len(db'.appts) <= Len(db.appts)]_vars

\* an appointment met again by a later row
C35_Witness ==
    \E k \in 1..Len(dbc.appts) :
        /\ dbc.appts[k].emrAppointmentId # ""
        /\ dbc.appts[k].version >= 1
        /\ \E i, j \in 1..Len(dbc.imports) :
              /\ i # j
              /\ dbc.imports[i].stats.created >= 1
              /\ dbc.imports[j].stats.updated + dbc.imports[j].stats.conflicts >= 1

(***************************************************************************)
(* Version and conflict flag of an appointment (outpatient_importer.py     *)
(* lines 165-205).                                                         *)
(***************************************************************************)
\* the statement part of one appointment row
ApptRowWrites ==
    /\ pc = "upsert"
    /\ KindOf(CurFile) = "OUTPATIENT"
    /\ fr.sel # <<>>
    /\ fr'.idx = fr.idx + 1

\* the row's statement changes a field of appointment k, or flags it
ChangesOrFlags(k) ==
    \/ [db'.appts[k] EXCEPT !.version = 0] # [db.appts[k] EXCEPT !.version = 0]
    \/ /\ fr.sel[1].existing = k
       /\ fr.sel[1].doctorId # 0
       /\ db.appts[k].source = "INTERNAL"

NotLowered(e, d) ==
    \A k \in 1..Len(e.appts) :
        /\ k <= Len(d.appts)
        /\ d.appts[k].version >= e.appts[k].version
        /\ e.appts[k].conflictFlag => d.appts[k].conflictFlag

\* C36: under imports the version of a stored Appointment never decreases
\* and its conflictFlag is never reset; a row's statement raises the version
\* by one when it changes or flags the appointment and leaves it otherwise;
\* a new Appointment has version 0, conflictFlag false and source EMR.
C36_Version_CountsChangingRows ==
    [][/\ pc # "idle" => NotLowered(dbc, dbc')
       /\ ApptRowWrites =>
            /\ NotLowered(db, db')
            /\ \A k \in 1..Len(db.appts) :
                 db'.appts[k].version
                    = db.appts[k].version + (IF ChangesOrFlags(k) THEN 1 ELSE 0)
            /\ \A k \in (Len(db.appts) + 1)..Len(db'.appts) :
                 /\ db'.appts[k].version = 0
                 /\ ~db'.appts[k].conflictFlag
                 /\ db'.appts[k].source = "EMR"]_vars

(***************************************************************************)
(* The error folder and the archive folder by file name (worker.py lines   *)
(* 65-87).  cArgs[f] is a delivered file: the watched folder it arrives    *)
(* in and its basename; its content is f.  cPc holds the second of the     *)
(* clock and where each file is; cRet holds, for each path of the two      *)
(* folders, the content stored there (0: no file).  shutil.move to the     *)
(* path of an existing file replaces that file.                            *)
(***************************************************************************)
MaxMoves == 2

MaxClock == 2

MoveIds == 1..MaxMoves

Basenames == {"a.xlsx", "b.xlsx"}

Seconds == 1..MaxClock

InitFolders ==
    /\ cArgs \in [MoveIds -> [folder : {"INPATIENT", "OUTPATIENT"}, name : Basenames]]
    /\ cPc = [now |-> 1, at |-> [f \in MoveIds |-> "sender"]]
    /\ cRet = [error |-> [n \in Basenames |-> 0],
               archive |-> [p \in Basenames \X Seconds |-> 0]]
    /\ ValidateOff /\ ParseOff /\ PipeOff

\* the sender writes file f into its watched folder, where no file of that
\* name is waiting
Deliver(f) ==
    /\ cPc.at[f] = "sender"
    /\ \A g \in MoveIds :
          (cPc.at[g] = "watched" /\ cArgs[g].folder = cArgs[f].folder)
              => cArgs[g].name # cArgs[f].name
    /\ cPc' = [cPc EXCEPT !.at[f] = "watched"]
    /\ UNCHANGED <<cArgs, cRet, valVars, parseVars, pipeVars>>

\* move_to_error: dest = ERROR_FOLDER / basename
MoveToError(f) ==
    /\ cPc.at[f] = "watched"
    /\ cRet' = [cRet EXCEPT !.error[cArgs[f].name] = f]
    /\ cPc' = [cPc EXCEPT !.at[f] = "error"]
    /\ UNCHANGED <<cArgs, valVars, parseVars, pipeVars>>

\* move_to_archive: dest = ARCHIVE_FOLDER / name_timestamp.ext, the
\* timestamp to the second
MoveToArchive(f) ==
    /\ cPc.at[f] = "watched"
    /\ cRet' = [cRet EXCEPT !.archive[<<cArgs[f].name, cPc.now>>] = f]
    /\ cPc' = [cPc EXCEPT !.at[f] = "archive"]
    /\ UNCHANGED <<cArgs, valVars, parseVars, pipeVars>>

\* a second passes
Tick ==
    /\ cPc.now < MaxClock
    /\ cPc' = [cPc EXCEPT !.now = @ + 1]
    /\ UNCHANGED <<cArgs, cRet, valVars, parseVars, pipeVars>>

NextFolders ==
    \/ \E f \in MoveIds : Deliver(f)
    \/ \E f \in MoveIds : MoveToError(f)
    \/ \E f \in MoveIds : MoveToArchive(f)
    \/ Tick

SpecFolders == InitFolders /\ [][NextFolders]_vars

\* C37: a file stored in the error folder or in the archive folder stays
\* there with its content: no move replaces it.
C37_Moves_NeverOverwrite ==
    [][/\ \A n \in Basenames : cRet.error[n] # 0 => cRet'.error[n] = cRet.error[n]
       /\ \A p \in Basenames \X Seconds :
            cRet.archive[p] # 0 => cRet'.archive[p] = cRet.archive[p]]_vars

====
